---- MODULE Spec2Model ----
(***************************************************************************)
(* Zomato food-ordering chatbot: the /chat tool-call loop of the two       *)
(* servers (gemini-food-ordering.js with its ToolRegistry and inline mock  *)
(* service, and server.js with handleFunctionCall and the remote MCP       *)
(* client), the session store, and the mock backend's cart/order state.    *)
(***************************************************************************)
EXTENDS Integers, Sequences, FiniteSets, TLC

\* ---------------------------------------------------------------- bounds
\* tool executions during one run of Spec
MaxToolExecs == 2
\* tool executions during one run of HistSpec
HistToolExecs == 1
\* tool executions beyond the loop cap that DeepSpec leaves room for
DeepSlack == 1
\* largest value of the millisecond clock Date.now()
MaxTime == 1
\* largest number of lines a cart is allowed to grow to
MaxCartLines == 1
\* session objects created during one run
MaxObjs == 2
\* calls made of the directly called mock service during one run
MockCalls == 7
\* largest value of the clock while the mock service is called directly
MockTime == 1
\* largest number of lines of a cart of the directly called mock service
MockLines == 2
\* calls of the mock service in CartSpec
CartCalls == 4
\* lines of the cart in CartSpec
CartLines == 2

\* ------------------------------------------------------ program constants
\* const maxCalls = 10 / const maxFunctionCalls = 10
maxCalls == 10
\* if (session.history.length > 40) session.history = session.history.slice(-40)
HistoryCap == 40
\* the wired mock's hard-coded line price
WiredPrice == 80

VARIABLES
    variant,    \* which server is running: "gemini" or "server"
    useMock,    \* USE_MOCK of gemini-food-ordering.js
    limits,     \* the request slots and tool executions this run explores
    sessions,   \* the sessions Map: session id -> index of its session object
    heap,       \* session objects: heap[i] is the history array of object i
    pushed,     \* history variable: every message ever pushed to object i
    carts,      \* mockService.carts: session id -> cart
    orders,     \* mockService.orders: order id -> order
    now,        \* the value Date.now() last returned
    req,        \* the /chat requests, one record per request slot
    turns,      \* /chat requests received so far
    execs,      \* tool executions (or direct mock service calls) taken up so far
    ret,        \* what the last direct call of a mock service method returned
    tools       \* toolRegistry.tools: the registered definitions, in Map order

vars == <<variant, useMock, limits, sessions, heap, pushed, carts, orders, now, req, turns,
          execs, ret, tools>>

\* the request slots: slot r carries the r-th /chat request received
Requests == {1, 2}
\* the one slot DeepSpec uses
DeepRequests == {1}
SessionIds == {"s1"}
Variants == {"gemini", "server"}

\* ------------------------------------------------------------- utilities
\* Map.delete(k)
MapDelete(m, k) == [x \in DOMAIN m \ {k} |-> m[x]]

\* Map.set(k, v)
MapSet(m, k, v) == [x \in DOMAIN m \cup {k} |-> IF x = k THEN v ELSE m[x]]

\* Array.prototype.slice(-n)
SliceLast(s, n) == IF Len(s) <= n THEN s ELSE SubSeq(s, Len(s) - n + 1, Len(s))

EmptyMap == [x \in {} |-> 0]

\* `session_${Date.now()}`
GenSessionId(t) == "session_" \o ToString(t)

\* `ORD${Date.now()}`
GenOrderId(t) == "ORD" \o ToString(t)

\* ------------------------------------------------------ strings as chars
\* A JavaScript string is modelled as the sequence of its characters, so that
\* toLowerCase, replace(/\s+/g, '') and includes are computed, not assumed.
UpperChars == <<"A","B","C","D","E","F","G","H","I","J","K","L","M",
                "N","O","P","Q","R","S","T","U","V","W","X","Y","Z">>

LowerChars == <<"a","b","c","d","e","f","g","h","i","j","k","l","m",
                "n","o","p","q","r","s","t","u","v","w","x","y","z">>

\* the lower-case letter of each upper-case letter
LowerOf ==
    [c \in {UpperChars[i] : i \in 1..26} |->
        LowerChars[CHOOSE i \in 1..26 : UpperChars[i] = c]]

\* String.prototype.toLowerCase, one character
ToLowerChar(c) == IF c \in DOMAIN LowerOf THEN LowerOf[c] ELSE c

\* String.prototype.toLowerCase
ToLowerCase(s) == [i \in 1..Len(s) |-> ToLowerChar(s[i])]

\* the characters /\s/ matches among those used here
IsSpace(c) == c \in {" ", "\t", "\n"}

\* s.replace(/\s+/g, '')
RECURSIVE StripSpaces(_)
StripSpaces(s) ==
    IF s = <<>> THEN <<>>
    ELSE IF IsSpace(Head(s)) THEN StripSpaces(Tail(s))
    ELSE <<Head(s)>> \o StripSpaces(Tail(s))

\* String.prototype.includes
Includes(s, sub) ==
    \E i \in 0..(Len(s) - Len(sub)) : SubSeq(s, i + 1, i + Len(sub)) = sub

StrVadodara == <<"V","a","d","o","d","a","r","a">>
StrMumbai == <<"M","u","m","b","a","i">>
StrGujarati == <<"G","u","j","a","r","a","t","i">>
KeyVadodara == <<"v","a","d","o","d","a","r","a">>

\* ------------------------------------------- region lookup and filters
\* the property names an object literal inherits from Object.prototype that a
\* lower-cased, whitespace-stripped string can equal: restaurants[key] finds
\* Object.prototype.constructor and Object.prototype.__proto__ under them
InheritedKeys == {<<"c","o","n","s","t","r","u","c","t","o","r">>,
                  <<"_","_","p","r","o","t","o","_","_">>}


\* obj[key] || fallback for an object literal of lists: the own property when
\* there is one, the (truthy) inherited value under an inherited name, else the
\* fallback list. isList tells a list of restaurants from an inherited value.
LookupOrDefault(table, key, fallback) ==
    IF key \in DOMAIN table THEN [isList |-> TRUE, list |-> table[key]]
    ELSE IF key \in InheritedKeys THEN [isList |-> FALSE, list |-> <<>>]
    ELSE [isList |-> TRUE, list |-> fallback]

\* if (cuisine) restaurants = restaurants.filter(cuisine match);
\* if (priceRange) restaurants = restaurants.filter(exact price match)
FilterRestaurants(r0, cuisine, priceRange) ==
    LET ByCuisine(r) == Includes(ToLowerCase(r.cuisine), ToLowerCase(cuisine))
        r1 == IF cuisine # <<>> THEN SelectSeq(r0, ByCuisine) ELSE r0
        ByPrice(r) == r.priceRange = priceRange
    IN  IF priceRange # "" THEN SelectSeq(r1, ByPrice) ELSE r1

\* the outcome of a search on the value the region lookup gave: an inherited
\* value has no filter method, so a truthy cuisine or priceRange makes
\* restaurants.filter(...) throw a TypeError; without filters the inherited
\* value itself is returned as "restaurants"
SearchOutcome(region, cuisine, priceRange) ==
    IF region.isList
    THEN [threw |-> FALSE, success |-> TRUE, error |-> "", isList |-> TRUE,
          restaurants |-> FilterRestaurants(region.list, cuisine, priceRange)]
    ELSE IF cuisine # <<>> \/ priceRange # ""
    THEN [threw |-> TRUE, success |-> FALSE, error |-> "TypeError", isList |-> FALSE,
          restaurants |-> <<>>]
    ELSE [threw |-> FALSE, success |-> TRUE, error |-> "", isList |-> FALSE,
          restaurants |-> <<>>]

\* ------------------------------------- the registry-wired mock service
\* (class MockZomatoService of gemini-food-ordering.js)
\* the restaurants table of searchRestaurants: one region, vadodara
WiredRestaurants ==
    <<[id |-> "rest_001",
       cuisine |-> <<"G","u","j","a","r","a","t","i">>,
       priceRange |-> "budget"],
      [id |-> "rest_002",
       cuisine |-> <<"N","o","r","t","h"," ","I","n","d","i","a","n",",",
                     " ","G","u","j","a","r","a","t","i">>,
       priceRange |-> "mid-range"]>>

\* restaurants[key] || restaurants.vadodara
WiredRegion(key) ==
    LookupOrDefault(KeyVadodara :> WiredRestaurants, key, WiredRestaurants)

\* searchRestaurants(location, cuisine, priceRange): an absent (undefined)
\* location makes location.toLowerCase() throw a TypeError; an absent or
\* empty cuisine / priceRange is falsy and skips its filter.
WiredSearchRestaurants(hasLocation, location, cuisine, priceRange) ==
    IF ~hasLocation
    THEN [threw |-> TRUE, success |-> FALSE, error |-> "TypeError", isList |-> FALSE,
          restaurants |-> <<>>]
    ELSE SearchOutcome(WiredRegion(StripSpaces(ToLowerCase(location))),
                       cuisine, priceRange)

\* the menus table of getMenu: rest_001 only
WiredMenuIds == {"rest_001"}

\* getMenu(restaurantId)
WiredGetMenu(restaurantId) ==
    IF restaurantId \in WiredMenuIds
    THEN [success |-> TRUE, error |-> ""]
    ELSE [success |-> FALSE, error |-> "Restaurant not found"]

\* a faulty variant: one cart for all sessions
WiredAddToCartShared(c, sessionId, restaurantId, itemId, quantity, customizations) ==
    LET c1 == IF "cart" \in DOMAIN c THEN c
              ELSE MapSet(c, "cart",
                          [restaurantId |-> restaurantId, items |-> <<>>, total |-> 0])
        item == [itemId |-> itemId, name |-> "Sev Usal", price |-> WiredPrice,
                 quantity |-> quantity, customizations |-> customizations]
        cart == [c1["cart"] EXCEPT !.items = Append(@, item),
                                   !.total = @ + item.price * quantity]
    IN  [carts |-> MapSet(c1, "cart", cart), success |-> TRUE, error |-> "",
         cart |-> cart]

\* addToCart(sessionId, restaurantId, itemId, quantity, customizations):
\* no lookup, a fixed line { name: 'Sev Usal', price: 80 }, total += price * quantity
WiredAddToCart(c, sessionId, restaurantId, itemId, quantity, customizations) ==
    LET c1 == IF sessionId \in DOMAIN c THEN c
              ELSE MapSet(c, sessionId,
                          [restaurantId |-> restaurantId, items |-> <<>>, total |-> 0])
        item == [itemId |-> itemId, name |-> "Sev Usal", price |-> WiredPrice,
                 quantity |-> quantity, customizations |-> customizations]
        cart == [c1[sessionId] EXCEPT !.items = Append(@, item),
                                      !.total = @ + item.price * quantity]
    IN  [carts |-> MapSet(c1, sessionId, cart), success |-> TRUE, error |-> "",
         cart |-> cart]

\* the empty-cart shape { items: [], total: 0 }
EmptyCartShape == [items |-> <<>>, total |-> 0]

\* viewCart(sessionId)
WiredViewCart(c, sessionId) ==
    IF sessionId \in DOMAIN c /\ Len(c[sessionId].items) > 0
    THEN [success |-> TRUE, error |-> "",
          cart |-> [items |-> c[sessionId].items, total |-> c[sessionId].total]]
    ELSE [success |-> TRUE, error |-> "", cart |-> EmptyCartShape]

\* placeOrder(sessionId, deliveryAddress, paymentMethod) at clock value t
WiredPlaceOrder(c, o, sessionId, deliveryAddress, paymentMethod, t) ==
    IF sessionId \notin DOMAIN c \/ Len(c[sessionId].items) = 0
    THEN [carts |-> c, orders |-> o, success |-> FALSE, error |-> "Cart is empty",
          orderId |-> ""]
    ELSE LET orderId == GenOrderId(t)
             order == [orderId |-> orderId,
                       items |-> c[sessionId].items,
                       total |-> c[sessionId].total,
                       deliveryAddress |-> deliveryAddress,
                       paymentMethod |-> paymentMethod,
                       status |-> "confirmed",
                       estimatedDelivery |-> "30-35 mins"]
         IN  [carts |-> MapDelete(c, sessionId),
              orders |-> MapSet(o, orderId, order),
              success |-> TRUE, error |-> "", orderId |-> orderId]

\* trackOrder(orderId): a pure read in the wired mock
WiredTrackOrder(o, orderId) ==
    IF orderId \in DOMAIN o
    THEN [orders |-> o, success |-> TRUE, error |-> "", status |-> o[orderId].status]
    ELSE [orders |-> o, success |-> FALSE, error |-> "Order not found", status |-> ""]

\* ------------------------------------- mockZomatoService.js (standalone)
\* generateMockRestaurants(): region key -> the region's restaurants, in source order
MockRestaurants ==
    (<<"v","a","d","o","d","a","r","a">> :>
      <<
        [id |-> "rest_001",
         cuisine |-> <<"G","u","j","a","r","a","t","i">>,
         priceRange |-> "budget"],
        [id |-> "rest_002",
         cuisine |-> <<"N","o","r","t","h"," ","I","n","d","i","a","n",","," ","G","u","j","a","r","a","t","i">>,
         priceRange |-> "mid-range"],
        [id |-> "rest_003",
         cuisine |-> <<"N","o","r","t","h"," ","I","n","d","i","a","n",","," ","P","u","n","j","a","b","i">>,
         priceRange |-> "budget"],
        [id |-> "rest_004",
         cuisine |-> <<"B","B","Q",","," ","N","o","r","t","h"," ","I","n","d","i","a","n">>,
         priceRange |-> "premium"] >>)
    @@
    (<<"m","u","m","b","a","i">> :>
      <<
        [id |-> "rest_101",
         cuisine |-> <<"I","t","a","l","i","a","n",","," ","P","i","z","z","a">>,
         priceRange |-> "mid-range"],
        [id |-> "rest_102",
         cuisine |-> <<"I","t","a","l","i","a","n">>,
         priceRange |-> "mid-range"] >>)
    @@
    (<<"d","e","l","h","i">> :>
      <<
        [id |-> "rest_201",
         cuisine |-> <<"B","i","r","y","a","n","i",","," ","I","n","d","i","a","n">>,
         priceRange |-> "budget"] >>)

\* searchRestaurants(location, cuisine = null, priceRange = null) of the
\* standalone mock; an absent cuisine is <<>>, an absent priceRange is ""
MockSearchRestaurants(location, cuisine, priceRange) ==
    LET locationKey == StripSpaces(ToLowerCase(location))
    IN  SearchOutcome(LookupOrDefault(MockRestaurants, locationKey,
                                      MockRestaurants[KeyVadodara]),
                      cuisine, priceRange)

\* a menu item { id, name, price } of getMenus()
MenuItem(id, name, price) == [id |-> id, name |-> name, price |-> price]

\* getMenus(): restaurant id -> its categories, each the list of its items
MockMenus ==
    ("rest_001" :> << <<MenuItem("item_001", "Sev Usal", 80),
                        MenuItem("item_002", "Dabeli", 40),
                        MenuItem("item_003", "Khaman Dhokla", 60)>>,
                      <<MenuItem("item_004", "Gujarati Thali", 200),
                        MenuItem("item_005", "Undhiyu", 150)>> >>)
    @@ ("rest_002" :> << <<MenuItem("item_101", "Butter Chicken", 280),
                           MenuItem("item_102", "Paneer Butter Masala", 220)>> >>)
    @@ ("rest_003" :> << <<MenuItem("item_201", "Aloo Paratha", 60),
                           MenuItem("item_202", "Paneer Paratha", 80),
                           MenuItem("item_203", "Mix Veg Paratha", 70)>> >>)
    @@ ("rest_101" :> << <<MenuItem("item_301", "Margherita Pizza", 299),
                           MenuItem("item_302", "Pepperoni Pizza", 399)>> >>)

\* items.find(i => i.id === itemId): the first match, as a list of 0 or 1 items
FindItem(items, itemId) ==
    LET hits == {i \in 1..Len(items) : items[i].id = itemId}
    IN  IF hits = {} THEN <<>>
        ELSE <<items[CHOOSE i \in hits : \A j \in hits : i <= j]>>

\* for (const category of menu.categories) { ...; if (item) break }
RECURSIVE FindInCategories(_, _)
FindInCategories(categories, itemId) ==
    IF categories = <<>> THEN <<>>
    ELSE IF FindItem(Head(categories), itemId) # <<>>
         THEN FindItem(Head(categories), itemId)
         ELSE FindInCategories(Tail(categories), itemId)

\* items.reduce((sum, item) => sum + item.subtotal, 0)
RECURSIVE SumSubtotals(_)
SumSubtotals(items) ==
    IF items = <<>> THEN 0 ELSE Head(items).subtotal + SumSubtotals(Tail(items))

\* getMenu(restaurantId)
MockGetMenu(restaurantId) ==
    IF restaurantId \in DOMAIN MockMenus
    THEN [success |-> TRUE, error |-> ""]
    ELSE [success |-> FALSE, error |-> "Restaurant not found"]

\* a faulty variant: addToCart that appends the line and leaves the total as it was
MockAddToCartStaleTotal(c, sessionId, restaurantId, itemId, quantity, customizations) ==
    LET c1 == IF sessionId \in DOMAIN c THEN c
              ELSE MapSet(c, sessionId,
                          [restaurantId |-> restaurantId, items |-> <<>>, total |-> 0])
        found == IF restaurantId \in DOMAIN MockMenus
                 THEN FindInCategories(MockMenus[restaurantId], itemId)
                 ELSE <<>>
    IN  IF found = <<>>
        THEN [carts |-> c1, success |-> FALSE,
              error |-> IF restaurantId \in DOMAIN MockMenus THEN "Item not found"
                        ELSE "Restaurant not found",
              cart |-> EmptyCartShape]
        ELSE LET cartItem == [itemId |-> itemId, name |-> found[1].name,
                              price |-> found[1].price, quantity |-> quantity,
                              customizations |-> customizations,
                              subtotal |-> found[1].price * quantity]
                 cart == [c1[sessionId] EXCEPT !.items = Append(@, cartItem)]
             IN  [carts |-> MapSet(c1, sessionId, cart), success |-> TRUE,
                  error |-> "", cart |-> [items |-> cart.items, total |-> cart.total]]

\* a faulty variant: addToCart that adds the quantity to a line the cart already
\* has for the item instead of appending a line
MockAddToCartMerging(c, sessionId, restaurantId, itemId, quantity, customizations) ==
    LET c1 == IF sessionId \in DOMAIN c THEN c
              ELSE MapSet(c, sessionId,
                          [restaurantId |-> restaurantId, items |-> <<>>, total |-> 0])
        found == IF restaurantId \in DOMAIN MockMenus
                 THEN FindInCategories(MockMenus[restaurantId], itemId)
                 ELSE <<>>
        old == c1[sessionId].items
        same == {i \in 1..Len(old) : old[i].itemId = itemId}
    IN  IF found = <<>>
        THEN [carts |-> c1, success |-> FALSE,
              error |-> IF restaurantId \in DOMAIN MockMenus THEN "Item not found"
                        ELSE "Restaurant not found",
              cart |-> EmptyCartShape]
        ELSE LET cartItem == [itemId |-> itemId, name |-> found[1].name,
                              price |-> found[1].price, quantity |-> quantity,
                              customizations |-> customizations,
                              subtotal |-> found[1].price * quantity]
                 items == IF same = {} THEN Append(old, cartItem)
                          ELSE [i \in 1..Len(old) |->
                                  IF i \in same
                                  THEN [old[i] EXCEPT
                                          !.quantity = @ + quantity,
                                          !.subtotal = @ + found[1].price * quantity]
                                  ELSE old[i]]
                 cart == [c1[sessionId] EXCEPT !.items = items,
                                               !.total = SumSubtotals(items)]
             IN  [carts |-> MapSet(c1, sessionId, cart), success |-> TRUE,
                  error |-> "", cart |-> [items |-> cart.items, total |-> cart.total]]

\* addToCart(sessionId, restaurantId, itemId, quantity, customizations): the
\* cart is created before the restaurant and the item are looked up
MockAddToCart(c, sessionId, restaurantId, itemId, quantity, customizations) ==
    LET c1 == IF sessionId \in DOMAIN c THEN c
              ELSE MapSet(c, sessionId,
                          [restaurantId |-> restaurantId, items |-> <<>>, total |-> 0])
        found == IF restaurantId \in DOMAIN MockMenus
                 THEN FindInCategories(MockMenus[restaurantId], itemId)
                 ELSE <<>>
    IN  IF restaurantId \notin DOMAIN MockMenus
        THEN [carts |-> c1, success |-> FALSE, error |-> "Restaurant not found",
              cart |-> EmptyCartShape]
        ELSE IF found = <<>>
        THEN [carts |-> c1, success |-> FALSE, error |-> "Item not found",
              cart |-> EmptyCartShape]
        ELSE LET cartItem == [itemId |-> itemId, name |-> found[1].name,
                              price |-> found[1].price, quantity |-> quantity,
                              customizations |-> customizations,
                              subtotal |-> found[1].price * quantity]
                 items == Append(c1[sessionId].items, cartItem)
                 cart == [c1[sessionId] EXCEPT !.items = items,
                                               !.total = SumSubtotals(items)]
             IN  [carts |-> MapSet(c1, sessionId, cart), success |-> TRUE,
                  error |-> "", cart |-> [items |-> cart.items, total |-> cart.total]]

\* a faulty variant: viewCart that reports a missing cart as an error
MockViewCartMissingIsError(c, sessionId) ==
    IF sessionId \notin DOMAIN c
    THEN [success |-> FALSE, error |-> "Cart not found", cart |-> EmptyCartShape]
    ELSE [success |-> TRUE, error |-> "",
          cart |-> [items |-> c[sessionId].items, total |-> c[sessionId].total]]

\* viewCart(sessionId)
MockViewCart(c, sessionId) ==
    IF sessionId \notin DOMAIN c \/ Len(c[sessionId].items) = 0
    THEN [success |-> TRUE, error |-> "", cart |-> EmptyCartShape]
    ELSE [success |-> TRUE, error |-> "",
          cart |-> [items |-> c[sessionId].items, total |-> c[sessionId].total]]

\* an order placed at clock value t from a cart (placedAt is left out)
NewOrder(cart, deliveryAddress, paymentMethod, t) ==
    [orderId |-> GenOrderId(t), items |-> cart.items, total |-> cart.total,
     deliveryAddress |-> deliveryAddress, paymentMethod |-> paymentMethod,
     status |-> "confirmed", estimatedDelivery |-> "30-35 mins"]

\* a faulty variant: placeOrder that sets the order and leaves the cart in the store
MockPlaceOrderKeepsCart(c, o, sessionId, deliveryAddress, paymentMethod, t) ==
    IF sessionId \notin DOMAIN c \/ Len(c[sessionId].items) = 0
    THEN [carts |-> c, orders |-> o, success |-> FALSE, error |-> "Cart is empty",
          orderId |-> ""]
    ELSE [carts |-> c,
          orders |-> MapSet(o, GenOrderId(t),
                            NewOrder(c[sessionId], deliveryAddress, paymentMethod, t)),
          success |-> TRUE, error |-> "", orderId |-> GenOrderId(t)]

\* a faulty variant: placeOrder that empties the cart's lines before it copies
\* them into the order
MockPlaceOrderLosesItems(c, o, sessionId, deliveryAddress, paymentMethod, t) ==
    IF sessionId \notin DOMAIN c \/ Len(c[sessionId].items) = 0
    THEN [carts |-> c, orders |-> o, success |-> FALSE, error |-> "Cart is empty",
          orderId |-> ""]
    ELSE [carts |-> MapDelete(c, sessionId),
          orders |-> MapSet(o, GenOrderId(t),
                            NewOrder([c[sessionId] EXCEPT !.items = <<>>],
                                     deliveryAddress, paymentMethod, t)),
          success |-> TRUE, error |-> "", orderId |-> GenOrderId(t)]

\* a faulty variant: placeOrder that only asks whether the session has a cart
MockPlaceOrderOfEmptyCart(c, o, sessionId, deliveryAddress, paymentMethod, t) ==
    IF sessionId \notin DOMAIN c
    THEN [carts |-> c, orders |-> o, success |-> FALSE, error |-> "Cart is empty",
          orderId |-> ""]
    ELSE [carts |-> MapDelete(c, sessionId),
          orders |-> MapSet(o, GenOrderId(t),
                            NewOrder(c[sessionId], deliveryAddress, paymentMethod, t)),
          success |-> TRUE, error |-> "", orderId |-> GenOrderId(t)]

\* placeOrder(sessionId, deliveryAddress, paymentMethod) at clock value t:
\* this.orders.set(orderId, order); this.carts.delete(sessionId)
MockPlaceOrder(c, o, sessionId, deliveryAddress, paymentMethod, t) ==
    IF sessionId \notin DOMAIN c \/ Len(c[sessionId].items) = 0
    THEN [carts |-> c, orders |-> o, success |-> FALSE, error |-> "Cart is empty",
          orderId |-> ""]
    ELSE [carts |-> MapDelete(c, sessionId),
          orders |-> MapSet(o, GenOrderId(t),
                            NewOrder(c[sessionId], deliveryAddress, paymentMethod, t)),
          success |-> TRUE, error |-> "", orderId |-> GenOrderId(t)]

\* const statuses = ['confirmed', 'preparing', 'out_for_delivery', 'delivered']
Statuses == <<"confirmed", "preparing", "out_for_delivery", "delivered">>

\* statuses.indexOf(status), counted from 1 (0 when absent)
StatusIndex(status) ==
    IF \E i \in 1..Len(Statuses) : Statuses[i] = status
    THEN CHOOSE i \in 1..Len(Statuses) : Statuses[i] = status
    ELSE 0

\* a faulty variant: trackOrder that reports success for an id it does not find
MockTrackOrderMissingSucceeds(o, orderId) ==
    IF orderId \notin DOMAIN o
    THEN [orders |-> o, success |-> TRUE, error |-> "", status |-> ""]
    ELSE LET i == StatusIndex(o[orderId].status)
             status == IF i < Len(Statuses) THEN Statuses[i + 1] ELSE o[orderId].status
         IN  [orders |-> [o EXCEPT ![orderId].status = status], success |-> TRUE,
              error |-> "", status |-> status]

\* a faulty variant: trackOrder that moves the order two statuses on
MockTrackOrderSkips(o, orderId) ==
    IF orderId \notin DOMAIN o
    THEN [orders |-> o, success |-> FALSE, error |-> "Order not found", status |-> ""]
    ELSE LET i == StatusIndex(o[orderId].status)
             status == IF i + 2 <= Len(Statuses) THEN Statuses[i + 2]
                       ELSE Statuses[Len(Statuses)]
         IN  [orders |-> [o EXCEPT ![orderId].status = status], success |-> TRUE,
              error |-> "", status |-> status]

\* trackOrder(orderId): each call moves the order one status on, up to delivered
MockTrackOrder(o, orderId) ==
    IF orderId \notin DOMAIN o
    THEN [orders |-> o, success |-> FALSE, error |-> "Order not found", status |-> ""]
    ELSE LET i == StatusIndex(o[orderId].status)
             status == IF i < Len(Statuses) THEN Statuses[i + 1] ELSE o[orderId].status
         IN  [orders |-> [o EXCEPT ![orderId].status = status], success |-> TRUE,
              error |-> "", status |-> status]

\* ------------------------------------------------------------ tool calls
\* the names registerDefaultTools registers, in registration order (the same
\* six names are the cases of handleFunctionCall's switch)
RegisteredTools ==
    <<"search_restaurants", "get_menu", "add_to_cart", "view_cart",
      "place_order", "track_order">>

IsRegistered(name) == \E i \in 1..Len(RegisteredTools) : RegisteredTools[i] = name

\* ------------------------------------------------------------ the tool registry
\* toolRegistry.tools is a Map from name to definition; it is kept here as the
\* sequence of its values in the Map's iteration order (the order of insertion
\* of the keys)
HasTool(t, name) == \E i \in 1..Len(t) : t[i].name = name

\* registerTool(definition): this.tools.set(definition.name, definition).
\* Map.prototype.set on a key that is present replaces the value and keeps the
\* key's place; on a new key it adds the entry at the end
RegisterTool(t, definition) ==
    IF HasTool(t, definition.name)
    THEN [i \in 1..Len(t) |->
              IF t[i].name = definition.name THEN definition ELSE t[i]]
    ELSE Append(t, definition)

\* the six definitions of registerDefaultTools, with the handler named after
\* its tool
DefaultDefinitions ==
    [i \in 1..Len(RegisteredTools) |->
        [name |-> RegisteredTools[i], description |-> "default",
         inputSchema |-> "default", handler |-> RegisteredTools[i]]]

RECURSIVE RegisterAll(_, _)
RegisterAll(t, definitions) ==
    IF definitions = <<>> THEN t
    ELSE RegisterAll(RegisterTool(t, Head(definitions)), Tail(definitions))

\* new ToolRegistry(): an empty Map, then registerDefaultTools()
DefaultRegistry == RegisterAll(<<>>, DefaultDefinitions)

\* a faulty variant: the listing hands out the definitions themselves
GetGeminiToolsWhole(t) == t

\* getGeminiTools(): the functionDeclarations given to the model
GetGeminiTools(t) ==
    [i \in 1..Len(t) |->
        [name |-> t[i].name, description |-> t[i].description,
         parameters |-> t[i].inputSchema]]

\* GET /tools: the tools array of the response
ToolsEndpoint(t) ==
    [i \in 1..Len(t) |->
        [name |-> t[i].name, description |-> t[i].description,
         parameters |-> t[i].inputSchema]]

\* executeTool(name, args, context) as far as the registry goes: the throw for
\* a name without a tool, else the handler that is called
ExecuteTool(t, name) ==
    IF ~HasTool(t, name)
    THEN [threw |-> TRUE, error |-> "Tool not found", handler |-> ""]
    ELSE [threw |-> FALSE, error |-> "",
          handler |-> t[CHOOSE i \in 1..Len(t) : t[i].name = name].handler]

\* a function call { name, args } as the model emits it
Call(name) ==
    [name |-> name, hasLocation |-> TRUE, location |-> StrVadodara, cuisine |-> <<>>,
     priceRange |-> "", restaurantId |-> "rest_001", itemId |-> "item_001",
     quantity |-> 1, customizations |-> "", deliveryAddress |-> "123 Main St",
     paymentMethod |-> "card", orderId |-> ""]

\* the function calls the model is let to request, given the order ids in use
ToolCalls(orderIds) ==
    {[Call("search_restaurants") EXCEPT !.hasLocation = h, !.cuisine = cu] :
        h \in BOOLEAN, cu \in {<<>>, StrGujarati}}
    \cup {[Call("get_menu") EXCEPT !.restaurantId = rid] : rid \in {"rest_001", "rest_999"}}
    \cup {[Call("add_to_cart") EXCEPT !.restaurantId = a[1], !.quantity = a[2]] :
            a \in {<<"rest_001", 1>>, <<"rest_002", 2>>}}
    \cup {Call("view_cart")}
    \cup {Call("place_order")}
    \cup {[Call("track_order") EXCEPT !.orderId = oid] : oid \in orderIds \cup {"ORD_none"}}

\* a tool handler of registerDefaultTools in mock mode: the call of the mock
\* service method with (args, ctx.sessionId), at clock value t
WiredHandler(call, sessionId, c, o, t) ==
    CASE call.name = "search_restaurants" ->
            LET r == WiredSearchRestaurants(call.hasLocation, call.location,
                                            call.cuisine, call.priceRange)
            IN  [carts |-> c, orders |-> o, threw |-> r.threw,
                 success |-> r.success, error |-> r.error]
      [] call.name = "get_menu" ->
            LET r == WiredGetMenu(call.restaurantId)
            IN  [carts |-> c, orders |-> o, threw |-> FALSE,
                 success |-> r.success, error |-> r.error]
      [] call.name = "add_to_cart" ->
            LET r == WiredAddToCart(c, sessionId, call.restaurantId, call.itemId,
                                    call.quantity, call.customizations)
            IN  [carts |-> r.carts, orders |-> o, threw |-> FALSE,
                 success |-> r.success, error |-> r.error]
      [] call.name = "view_cart" ->
            LET r == WiredViewCart(c, sessionId)
            IN  [carts |-> c, orders |-> o, threw |-> FALSE,
                 success |-> r.success, error |-> r.error]
      [] call.name = "place_order" ->
            LET r == WiredPlaceOrder(c, o, sessionId, call.deliveryAddress,
                                     call.paymentMethod, t)
            IN  [carts |-> r.carts, orders |-> r.orders, threw |-> FALSE,
                 success |-> r.success, error |-> r.error]
      [] call.name = "track_order" ->
            LET r == WiredTrackOrder(o, call.orderId)
            IN  [carts |-> c, orders |-> r.orders, threw |-> FALSE,
                 success |-> r.success, error |-> r.error]

\* a faulty variant: a handler that throws the mock's failure instead of returning it
WiredExecuteThrowing(call, sessionId, c, o, t) ==
    LET r == WiredHandler(call, sessionId, c, o, t)
    IN  [r EXCEPT !.threw = @ \/ ~r.success]

\* toolRegistry.executeTool(name, args, context) for a registered name in
\* mock mode: return await tool.handler(args, context)
WiredExecute(call, sessionId, c, o, t) == WiredHandler(call, sessionId, c, o, t)

\* ----------------------------------------------------------- /chat turn
\* what req.body.message can be: absent, '', a non-empty string, or a truthy
\* value that is not a string
Messages == {"missing", "empty", "str", "nonstr"}

\* a faulty variant: only an absent message is rejected
MessageRejectedMissingOnly(v, msg) == msg = "missing"

\* the validation of req.body.message: !message in gemini-food-ordering.js,
\* !message || typeof message !== 'string' in server.js
MessageRejected(v, msg) ==
    IF v = "gemini" THEN msg \in {"missing", "empty"}
    ELSE msg \in {"missing", "empty", "nonstr"}

\* what response.text() can do: return non-empty text, return '', or throw
TextOutcomes == {"text", "empty", "throws"}

\* a faulty variant: the last function call of the response is taken
LastCall(nCalls) == nCalls

\* response.functionCalls[0]: the position, in the response, of the function
\* call the loop body takes up
FirstCall(nCalls) == 1

\* a faulty variant: the loop condition without its cap
LoopGuardNoCap(nCalls, callCount) == nCalls > 0

\* the while condition of the tool-call loop
LoopGuard(nCalls, callCount) == nCalls > 0 /\ callCount < maxCalls

\* the final text of a turn: gemini-food-ordering.js catches a throwing
\* response.text() and substitutes one of two fallbacks; server.js lets it throw
FinalResponse(v, textOutcome, callCount) ==
    IF textOutcome # "throws" THEN [ok |-> TRUE, text |-> textOutcome]
    ELSE IF v = "gemini"
         THEN [ok |-> TRUE,
               text |-> IF callCount > 0 THEN "fallback_processed" ELSE "fallback_help"]
         ELSE [ok |-> FALSE, text |-> ""]

\* the two history entries of a turn
TurnPair(turn, msg, finalText) ==
    <<[role |-> "user", turn |-> turn, text |-> msg],
      [role |-> "model", turn |-> turn, text |-> finalText]>>

\* a faulty variant: the history is set to the turn's pair
PushTurnOverwriting(history, turn, msg, finalText) == TurnPair(turn, msg, finalText)

\* a faulty variant: the push of the user message alone
PushTurnUserOnly(history, turn, msg, finalText) ==
    LET h == Append(history, TurnPair(turn, msg, finalText)[1])
    IN  IF Len(h) > HistoryCap THEN SliceLast(h, HistoryCap) ELSE h

\* a faulty variant: a truncation that keeps the oldest 40 messages
PushTurnKeepOldest(history, turn, msg, finalText) ==
    LET h == history \o TurnPair(turn, msg, finalText)
    IN  IF Len(h) > HistoryCap THEN SubSeq(h, 1, HistoryCap) ELSE h

\* session.history.push(user, model), then the truncation to the last 40
PushTurn(history, turn, msg, finalText) ==
    LET h == history \o TurnPair(turn, msg, finalText)
    IN  IF Len(h) > HistoryCap THEN SliceLast(h, HistoryCap) ELSE h

\* what was last sent to the model: the user message or a function response
MessagePayload ==
    [kind |-> "message", success |-> TRUE, error |-> "", caught |-> FALSE]

\* functionResponse { name, response: { result } } of a tool that returned
ResultPayload(name, success, error) ==
    [kind |-> "result", success |-> success, error |-> error, caught |-> FALSE]

\* handleFunctionCall's catch: return { error: true, message }
CaughtPayload(name, error) ==
    [kind |-> "result", success |-> FALSE, error |-> error, caught |-> TRUE]

\* a request slot with no turn in it
\* searchRestaurants has returned nothing yet
NoResult ==
    [threw |-> FALSE, success |-> FALSE, error |-> "", isList |-> FALSE,
     restaurants |-> <<>>]

\* no mock service method has been called directly
NoReturn ==
    [op |-> "", args |-> <<>>, sessionId |-> "", success |-> FALSE, error |-> "",
     orderId |-> "", cart |-> EmptyCartShape, status |-> "", result |-> NoResult]

IdleReq ==
    [pc |-> "idle", turn |-> 0, sid |-> "", msg |-> "", obj |-> 0, calls |-> 0,
     picked |-> 0,
     callCount |-> 0, payload |-> MessagePayload, toolExecs |-> 0, modelCalls |-> 0,
     responses |-> 0, status |-> 0, finalText |-> "", cause |-> "", error |-> "",
     capped |-> FALSE, sawFailure |-> FALSE]

\* res.status(code).json(...): the turn's response; the handler returns and
\* its response and functionCall locals are gone
Respond(q, code, cause, error) ==
    [q EXCEPT !.pc = "done", !.status = code, !.cause = cause, !.error = error,
              !.responses = @ + 1, !.calls = 0, !.picked = 0,
              !.payload = MessagePayload]

Init ==
    /\ variant \in Variants
    /\ useMock \in BOOLEAN
    /\ (variant = "server" => useMock = FALSE)
    /\ limits = [slots |-> Requests, execs |-> MaxToolExecs, time |-> MaxTime,
                 lines |-> MaxCartLines]
    /\ sessions = EmptyMap
    /\ heap = <<>>
    /\ pushed = <<>>
    /\ carts = EmptyMap
    /\ orders = EmptyMap
    /\ now = 0
    /\ req = [r \in Requests |-> IdleReq]
    /\ turns = 0
    /\ execs = 0
    /\ ret = NoReturn
    /\ tools = DefaultRegistry

\* a faulty variant: every turn makes its session
SessionIsNewAlways(s, sid) == TRUE

\* !sessions.has(sessionId)
SessionIsNew(s, sid) == sid \notin DOMAIN s

\* the session id of a request: the one supplied, or the default
SessionIdOf(given, t) == IF given = "" THEN GenSessionId(t) ELSE given

\* the values a call of Date.now() can return: the clock never goes back
ClockReadings == now..limits.time

\* POST /chat with a message that fails validation: 400, nothing else happens
ChatReject(r, msg, given) ==
    /\ req[r].pc = "idle"
    /\ r = turns + 1
    /\ r \in limits.slots
    /\ MessageRejected(variant, msg)
    /\ turns' = turns + 1
    /\ req' = [req EXCEPT ![r] =
                 Respond([IdleReq EXCEPT !.turn = r, !.msg = msg, !.sid = given],
                         400, "validation", "Message required")]
    /\ UNCHANGED <<variant, useMock, limits, tools, ret, sessions, heap, pushed, carts, orders, now, execs>>

\* POST /chat up to its first await: validation passed, the session is looked up
\* or created, the chat is started on its history, the message is sent
ChatStart(r, msg, given, t) ==
    /\ req[r].pc = "idle"
    /\ r = turns + 1
    /\ r \in limits.slots
    /\ ~MessageRejected(variant, msg)
    /\ t \in ClockReadings
    /\ (given # "" => t = now)
    /\ now' = t
    /\ LET sid == SessionIdOf(given, t)
           fresh == SessionIsNew(sessions, sid)
           obj == IF fresh THEN Len(heap) + 1 ELSE sessions[sid]
       IN  /\ fresh => Len(heap) < MaxObjs
           /\ sessions' = IF fresh THEN MapSet(sessions, sid, obj) ELSE sessions
           /\ heap' = IF fresh THEN Append(heap, <<>>) ELSE heap
           /\ pushed' = IF fresh THEN Append(pushed, <<>>) ELSE pushed
           /\ req' = [req EXCEPT ![r] =
                        [IdleReq EXCEPT !.pc = "send1", !.turn = r, !.msg = msg,
                                        !.sid = sid, !.obj = obj, !.modelCalls = 1]]
    /\ turns' = turns + 1
    /\ UNCHANGED <<variant, useMock, limits, tools, ret, carts, orders, execs>>

\* a faulty variant: the loop without its callCount++
CountAfterReturnStale(q) == q.callCount

\* callCount once the pending sendMessage has returned: callCount++ follows the
\* sendMessage of a function response
CountAfterReturn(q) == IF q.pc = "send2" THEN q.callCount + 1 ELSE q.callCount

\* a faulty variant: the rejection is not caught: Express never answers the request
ChatModelThrowsUnanswered(r) ==
    /\ req[r].pc \in {"send1", "send2"}
    /\ req' = [req EXCEPT ![r].pc = "hung"]
    /\ UNCHANGED <<variant, useMock, limits, tools, ret, sessions, heap, pushed, carts, orders, now, turns, execs>>

\* a faulty variant: the user message is already in the history when the model fails
ChatModelThrowsAfterPush(r) ==
    /\ req[r].pc \in {"send1", "send2"}
    /\ req' = [req EXCEPT ![r] = Respond(@, 500, "model", "model error")]
    /\ heap' = [heap EXCEPT ![req[r].obj] =
                  Append(@, TurnPair(req[r].turn, req[r].msg, "")[1])]
    /\ pushed' = [pushed EXCEPT ![req[r].obj] =
                    Append(@, TurnPair(req[r].turn, req[r].msg, "")[1])]
    /\ UNCHANGED <<variant, useMock, limits, tools, ret, sessions, carts, orders, now, turns, execs>>

\* chat.sendMessage rejects: the catch block answers 500
ChatModelThrows(r) ==
    /\ req[r].pc \in {"send1", "send2"}
    /\ req' = [req EXCEPT ![r] = Respond(@, 500, "model", "model error")]
    /\ UNCHANGED <<variant, useMock, limits, tools, ret, sessions, heap, pushed, carts, orders, now, turns, execs>>

\* chat.sendMessage returns a response with n function calls and the loop
\* condition holds: the first call is taken up
ChatToolRequested(r, n) ==
    /\ req[r].pc \in {"send1", "send2"}
    /\ LoopGuard(n, CountAfterReturn(req[r]))
    /\ execs < limits.execs
    /\ execs' = execs + 1
    /\ req' = [req EXCEPT ![r] =
                 [@ EXCEPT !.pc = "tool", !.calls = n, !.picked = FirstCall(n),
                           !.callCount = CountAfterReturn(req[r])]]
    /\ UNCHANGED <<variant, useMock, limits, tools, ret, sessions, heap, pushed, carts, orders, now, turns>>

\* chat.sendMessage returns a response with n function calls and the loop
\* condition fails: the final text is taken, the history updated, 200 sent
\* (or, in server.js, response.text() throws and the catch block answers 500)
ChatFinish(r, n, textOutcome) ==
    /\ req[r].pc \in {"send1", "send2"}
    /\ ~LoopGuard(n, CountAfterReturn(req[r]))
    /\ LET q == [req[r] EXCEPT !.calls = n, !.callCount = CountAfterReturn(req[r])]
           f == FinalResponse(variant, textOutcome, q.callCount)
           capped == n > 0
       IN  IF f.ok
           THEN /\ heap' = [heap EXCEPT ![q.obj] = PushTurn(@, q.turn, q.msg, f.text)]
                /\ pushed' = [pushed EXCEPT ![q.obj] = @ \o TurnPair(q.turn, q.msg, f.text)]
                /\ req' = [req EXCEPT ![r] = Respond([q EXCEPT !.finalText = f.text, !.capped = capped], 200, "", "")]
           ELSE /\ req' = [req EXCEPT ![r] = Respond([q EXCEPT !.capped = capped], 500, "text", "no text")]
                /\ UNCHANGED <<heap, pushed>>
    /\ UNCHANGED <<variant, useMock, limits, tools, ret, sessions, carts, orders, now, turns, execs>>

\* the function response is sent back to the model: the next await
SendResult(q, payload) ==
    [q EXCEPT !.pc = "send2", !.payload = payload, !.toolExecs = @ + 1,
              !.modelCalls = @ + 1,
              !.sawFailure = @ \/ (~payload.success /\ ~payload.caught)]

\* the tool execution threw and nothing caught it before the route's catch block
ToolAborts(q, error) ==
    Respond([q EXCEPT !.toolExecs = @ + 1], 500, "tool", error)

\* the model asks for a name that is not registered: executeTool throws
\* 'Tool not found' (gemini-food-ordering.js); the default case of
\* handleFunctionCall throws inside its own try and the catch returns
\* { error: true, message } (server.js)
ExecUnknownTool(r) ==
    /\ req[r].pc = "tool"
    /\ req' = [req EXCEPT ![r] =
                 IF variant = "gemini" THEN ToolAborts(@, "Tool not found")
                 ELSE SendResult(@, CaughtPayload("bogus_tool", "Unknown function"))]
    /\ UNCHANGED <<variant, useMock, limits, tools, ret, sessions, heap, pushed, carts, orders, now, turns, execs>>

\* executeTool in mock mode: the handler runs the mock service method to its end
ExecMockTool(r, call, t) ==
    /\ req[r].pc = "tool"
    /\ variant = "gemini" /\ useMock
    /\ IsRegistered(call.name)
    /\ (call.name = "add_to_cart" /\ req[r].sid \in DOMAIN carts)
          => Len(carts[req[r].sid].items) < limits.lines
    /\ t \in ClockReadings
    /\ (call.name # "place_order" => t = now)
    /\ LET res == WiredExecute(call, req[r].sid, carts, orders, t)
       IN  /\ (~res.success => t = now)
           /\ now' = t
           /\ carts' = res.carts
           /\ orders' = res.orders
           /\ req' = [req EXCEPT ![r] =
                        IF res.threw THEN ToolAborts(@, res.error)
                        ELSE SendResult(@, ResultPayload(call.name, res.success, res.error))]
    /\ UNCHANGED <<variant, useMock, limits, tools, ret, sessions, heap, pushed, turns, execs>>

\* the tool goes to the remote MCP server (zomatoClient.callMCP / callTool),
\* which returns a result or throws: gemini-food-ordering.js lets the error
\* reach the route's catch block, handleFunctionCall of server.js catches it
ExecRemoteTool(r, name, outcome) ==
    /\ req[r].pc = "tool"
    /\ variant = "server" \/ ~useMock
    /\ IsRegistered(name)
    /\ req' = [req EXCEPT ![r] =
                 IF outcome = "returns" THEN SendResult(@, ResultPayload(name, TRUE, ""))
                 ELSE IF variant = "gemini" THEN ToolAborts(@, "Zomato API error")
                 ELSE SendResult(@, CaughtPayload(name, "Zomato API error"))]
    /\ UNCHANGED <<variant, useMock, limits, tools, ret, sessions, heap, pushed, carts, orders, now, turns, execs>>

\* the response of DELETE /session/:sessionId: 200 with a message, or 404 with
\* 'Session not found'
DeleteResponse(sid, found) ==
    [NoReturn EXCEPT !.op = "DELETE /session", !.sessionId = sid, !.success = found,
                     !.error = IF found THEN "" ELSE "Session not found"]

\* a faulty variant: the route answers and leaves the entry in the store
DeleteSessionKeepsEntry(sid) ==
    /\ variant = "server"
    /\ ret' = DeleteResponse(sid, sid \in DOMAIN sessions)
    /\ UNCHANGED <<variant, useMock, limits, tools, sessions, heap, pushed, carts, orders, now, req, turns, execs>>

\* DELETE /session/:sessionId of server.js: sessions.delete(sessionId) returns
\* whether there was an entry
DeleteSession(sid) ==
    /\ variant = "server"
    /\ sessions' = MapDelete(sessions, sid)
    /\ ret' = DeleteResponse(sid, sid \in DOMAIN sessions)
    /\ UNCHANGED <<variant, useMock, limits, tools, heap, pushed, carts, orders, now, req, turns, execs>>

RemoteNames == {RegisteredTools[i] : i \in 1..Len(RegisteredTools)}

\* the steps of request r that its awaited calls returning or throwing enable
Progress(r) ==
    \/ ChatModelThrows(r)
    \/ \E n \in 1..2 : ChatToolRequested(r, n)
    \/ \E n \in 0..2, t \in TextOutcomes : ChatFinish(r, n, t)
    \/ ExecUnknownTool(r)
    \/ \E call \in ToolCalls(DOMAIN orders), t \in 0..MaxTime : ExecMockTool(r, call, t)
    \/ \E name \in RemoteNames, outcome \in {"returns", "throws"} :
          ExecRemoteTool(r, name, outcome)

Next ==
    \/ \E r \in Requests, msg \in Messages, given \in SessionIds \cup {""} :
          ChatReject(r, msg, given)
    \/ \E r \in Requests, msg \in Messages, given \in SessionIds \cup {""},
          t \in 0..MaxTime : ChatStart(r, msg, given, t)
    \/ \E r \in Requests : Progress(r)
    \/ \E sid \in SessionIds : DeleteSession(sid)

Spec == Init /\ [][Next]_vars

\* every awaited model invocation and tool execution returns or throws
FairSpec == Spec /\ \A r \in Requests : WF_vars(Progress(r))

\* one turn, followed through as many tool calls as the loop cap allows
DeepInit ==
    /\ variant \in Variants
    /\ useMock \in BOOLEAN
    /\ (variant = "server" => useMock = FALSE)
    /\ limits = [slots |-> DeepRequests, execs |-> maxCalls + DeepSlack,
                 time |-> MaxTime, lines |-> MaxCartLines]
    /\ sessions = EmptyMap
    /\ heap = <<>>
    /\ pushed = <<>>
    /\ carts = EmptyMap
    /\ orders = EmptyMap
    /\ now = 0
    /\ req = [r \in Requests |-> IdleReq]
    /\ turns = 0
    /\ execs = 0
    /\ ret = NoReturn
    /\ tools = DefaultRegistry

DeepSpec == DeepInit /\ [][Next]_vars

DeepFairSpec == DeepSpec /\ \A r \in Requests : WF_vars(Progress(r))

\* a history of n messages left by n / 2 earlier turns (numbered below zero)
PriorHistory(n) ==
    [i \in 1..n |->
        [role |-> IF i % 2 = 1 THEN "user" ELSE "model",
         turn |-> ((i + 1) \div 2) - (n \div 2) - 1,
         text |-> IF i % 2 = 1 THEN "str" ELSE "text"]]

\* the server after 19 or 20 completed turns on session s1
HistInit ==
    /\ variant \in Variants
    /\ useMock \in BOOLEAN
    /\ (variant = "server" => useMock = FALSE)
    /\ limits = [slots |-> Requests, execs |-> HistToolExecs, time |-> MaxTime,
                 lines |-> MaxCartLines]
    /\ sessions = MapSet(EmptyMap, "s1", 1)
    /\ \E n \in {HistoryCap - 2, HistoryCap} :
          /\ heap = <<PriorHistory(n)>>
          /\ pushed = <<PriorHistory(n)>>
    /\ carts = EmptyMap
    /\ orders = EmptyMap
    /\ now = 0
    /\ req = [r \in Requests |-> IdleReq]
    /\ turns = 0
    /\ execs = 0
    /\ ret = NoReturn
    /\ tools = DefaultRegistry

HistSpec == HistInit /\ [][Next]_vars

\* ------------------------------ the standalone mock service, called directly
\* the sessions whose callers interleave
MockSessions == {"s1", "s2"}

\* the arguments callers pass to addToCart: <<restaurantId, itemId, quantity>>
\* (a menu item, another with a quantity below 1, an unknown item, an unknown
\* restaurant)
MockAdds ==
    {<<"rest_001", "item_001", 2>>, <<"rest_001", "item_005", -1>>,
     <<"rest_001", "item_999", 1>>, <<"rest_999", "item_001", 1>>}

\* one mock service instance (new MockZomatoService()), no server around it
MockInit ==
    /\ variant = "mock"
    /\ useMock = TRUE
    /\ limits = [slots |-> {}, execs |-> MockCalls, time |-> MockTime, lines |-> MockLines]
    /\ sessions = EmptyMap
    /\ heap = <<>>
    /\ pushed = <<>>
    /\ carts = EmptyMap
    /\ orders = EmptyMap
    /\ now = 0
    /\ req = [r \in Requests |-> IdleReq]
    /\ turns = 0
    /\ execs = 0
    /\ ret = NoReturn
    /\ tools = DefaultRegistry

\* await mock.getMenu(restaurantId)
CallGetMenu(restaurantId) ==
    /\ variant = "mock"
    /\ execs < limits.execs
    /\ execs' = execs + 1
    /\ LET r == MockGetMenu(restaurantId)
       IN  ret' = [NoReturn EXCEPT !.op = "getMenu", !.args = <<restaurantId>>,
                                   !.success = r.success, !.error = r.error]
    /\ UNCHANGED <<variant, useMock, limits, tools, sessions, heap, pushed, carts, orders, now,
                   req, turns>>

\* a faulty variant: viewCart that sets an empty cart for a session without one
CallViewCartCreating(sessionId) ==
    /\ variant = "mock"
    /\ execs < limits.execs
    /\ execs' = execs + 1
    /\ carts' = IF sessionId \in DOMAIN carts THEN carts
                ELSE MapSet(carts, sessionId,
                            [restaurantId |-> "", items |-> <<>>, total |-> 0])
    /\ LET r == MockViewCart(carts, sessionId)
       IN  ret' = [NoReturn EXCEPT !.op = "viewCart", !.args = <<sessionId>>,
                                   !.sessionId = sessionId,
                                   !.success = r.success, !.error = r.error,
                                   !.cart = r.cart]
    /\ UNCHANGED <<variant, useMock, limits, tools, sessions, heap, pushed, orders, now,
                   req, turns>>

\* the searches made between the other calls: a region without filters, a
\* region with a cuisine, and an inherited property name with a cuisine
MockQueries ==
    {<<StrVadodara, <<>>, "">>,
     <<StrMumbai, StrGujarati, "">>,
     <<<<"C","o","n","s","t","r","u","c","t","o","r">>, StrGujarati, "">>}

\* await mock.searchRestaurants(location, cuisine, priceRange)
CallSearch(query) ==
    /\ variant = "mock"
    /\ execs < limits.execs
    /\ execs' = execs + 1
    /\ LET r == MockSearchRestaurants(query[1], query[2], query[3])
       IN  ret' = [NoReturn EXCEPT !.op = "searchRestaurants", !.args = query,
                                   !.success = r.success, !.error = r.error,
                                   !.result = r]
    /\ UNCHANGED <<variant, useMock, limits, tools, sessions, heap, pushed, carts, orders, now,
                   req, turns>>

\* await mock.addToCart(sessionId, restaurantId, itemId, quantity)
CallAddToCart(sessionId, restaurantId, itemId, quantity) ==
    /\ variant = "mock"
    /\ execs < limits.execs
    /\ execs' = execs + 1
    /\ sessionId \in DOMAIN carts => Len(carts[sessionId].items) < limits.lines
    /\ LET r == MockAddToCart(carts, sessionId, restaurantId, itemId, quantity, "")
       IN  /\ carts' = r.carts
           /\ ret' = [NoReturn EXCEPT !.op = "addToCart",
                                      !.args = <<sessionId, restaurantId, itemId, quantity>>,
                                      !.sessionId = sessionId,
                                      !.success = r.success, !.error = r.error,
                                      !.cart = r.cart]
    /\ UNCHANGED <<variant, useMock, limits, tools, sessions, heap, pushed, orders, now, req,
                   turns>>

\* await mock.viewCart(sessionId)
CallViewCart(sessionId) ==
    /\ variant = "mock"
    /\ execs < limits.execs
    /\ execs' = execs + 1
    /\ LET r == MockViewCart(carts, sessionId)
       IN  ret' = [NoReturn EXCEPT !.op = "viewCart", !.args = <<sessionId>>,
                                   !.sessionId = sessionId,
                                   !.success = r.success, !.error = r.error,
                                   !.cart = r.cart]
    /\ UNCHANGED <<variant, useMock, limits, tools, sessions, heap, pushed, carts, orders, now,
                   req, turns>>

\* await mock.placeOrder(sessionId, deliveryAddress, paymentMethod); the clock
\* is read only when the cart has items
CallPlaceOrder(sessionId, t) ==
    /\ variant = "mock"
    /\ execs < limits.execs
    /\ execs' = execs + 1
    /\ t \in ClockReadings
    /\ LET r == MockPlaceOrder(carts, orders, sessionId, "123 Main St", "card", t)
       IN  /\ (~r.success => t = now)
           /\ now' = t
           /\ carts' = r.carts
           /\ orders' = r.orders
           /\ ret' = [NoReturn EXCEPT !.op = "placeOrder", !.sessionId = sessionId,
                                      !.success = r.success, !.error = r.error,
                                      !.orderId = r.orderId]
    /\ UNCHANGED <<variant, useMock, limits, tools, sessions, heap, pushed, req, turns>>

\* await mock.trackOrder(orderId)
CallTrackOrder(orderId) ==
    /\ variant = "mock"
    /\ execs < limits.execs
    /\ execs' = execs + 1
    /\ LET r == MockTrackOrder(orders, orderId)
       IN  /\ orders' = r.orders
           /\ ret' = [NoReturn EXCEPT !.op = "trackOrder", !.orderId = orderId,
                                      !.success = r.success, !.error = r.error,
                                      !.status = r.status]
    /\ UNCHANGED <<variant, useMock, limits, tools, sessions, heap, pushed, carts, now, req,
                   turns>>

\* callers of the one instance, their calls interleaved in any order; no
\* method awaits anything, so each call runs from entry to return in one step
MockNext ==
    \/ \E query \in MockQueries : CallSearch(query)
    \/ \E rid \in {"rest_001", "rest_999"} : CallGetMenu(rid)
    \/ \E sid \in MockSessions, a \in MockAdds : CallAddToCart(sid, a[1], a[2], a[3])
    \/ \E sid \in MockSessions : CallViewCart(sid)
    \/ \E sid \in MockSessions, t \in 0..MockTime : CallPlaceOrder(sid, t)
    \/ \E oid \in DOMAIN orders \cup {"ORD_none"} : CallTrackOrder(oid)

MockSpec == MockInit /\ [][MockNext]_vars

\* ------------------------------------ one session's cart, over two restaurants
\* the arguments passed to addToCart: an item of rest_001, an item of rest_002
\* and an unknown restaurant
CartAdds ==
    {<<"rest_001", "item_001", 1>>, <<"rest_002", "item_101", 1>>,
     <<"rest_999", "item_001", 1>>}

\* one mock service instance and the callers of one session
CartInit ==
    /\ variant = "mock"
    /\ useMock = TRUE
    /\ limits = [slots |-> {}, execs |-> CartCalls, time |-> 0, lines |-> CartLines]
    /\ sessions = EmptyMap
    /\ heap = <<>>
    /\ pushed = <<>>
    /\ carts = EmptyMap
    /\ orders = EmptyMap
    /\ now = 0
    /\ req = [r \in Requests |-> IdleReq]
    /\ turns = 0
    /\ execs = 0
    /\ ret = NoReturn
    /\ tools = DefaultRegistry

CartNext ==
    \/ \E a \in CartAdds : CallAddToCart("s1", a[1], a[2], a[3])
    \/ CallViewCart("s1")
    \/ CallPlaceOrder("s1", 0)

CartSpec == CartInit /\ [][CartNext]_vars

\* --------------------------------------------- searchRestaurants, called alone
\* the locations searched for: a region as written, one with a space and one in
\* capitals, a place without a region, and a word that names an inherited property
SearchLocations ==
    {<<"V","a","d","o","d","a","r","a">>,
     <<"M","u","m"," ","b","a","i">>,
     <<"D","E","L","H","I">>,
     <<"P","u","n","e">>,
     <<"C","o","n","s","t","r","u","c","t","o","r">>}

\* the cuisines searched for (<<>>: none given)
SearchCuisines ==
    {<<>>, <<"g","u","j","a","r","a","t","i">>,
     <<"N","O","R","T","H"," ","I","N","D","I","A","N">>,
     <<"I","t","a","l","i","a","n">>}

\* the price ranges searched for ("": none given)
SearchPrices == {"", "budget", "mid-range"}

\* a caller about to search, with its arguments chosen
SearchInit ==
    /\ variant = "search"
    /\ useMock = TRUE
    /\ limits = [slots |-> {}, execs |-> 0, time |-> 0, lines |-> 0]
    /\ sessions = EmptyMap
    /\ heap = <<>>
    /\ pushed = <<>>
    /\ carts = EmptyMap
    /\ orders = EmptyMap
    /\ now = 0
    /\ req = [r \in Requests |-> IdleReq]
    /\ turns = 0
    /\ execs = 0
    /\ tools = DefaultRegistry
    /\ \E location \in SearchLocations, cuisine \in SearchCuisines,
          priceRange \in SearchPrices :
          ret = [op |-> "", location |-> location, cuisine |-> cuisine,
                 priceRange |-> priceRange, result |-> NoResult]

\* await mock.searchRestaurants(location, cuisine, priceRange), standalone mock
CallSearchRestaurants ==
    /\ variant = "search"
    /\ ret.op = ""
    /\ ret' = [ret EXCEPT !.op = "searchRestaurants",
                          !.result = MockSearchRestaurants(ret.location, ret.cuisine,
                                                           ret.priceRange)]
    /\ UNCHANGED <<variant, useMock, limits, tools, sessions, heap, pushed, carts, orders, now,
                   req, turns, execs>>

\* await mockService.searchRestaurants(location, cuisine, priceRange), the mock
\* service of gemini-food-ordering.js
CallWiredSearch ==
    /\ variant = "search"
    /\ ret.op = ""
    /\ ret' = [ret EXCEPT !.op = "wiredSearch",
                          !.result = WiredSearchRestaurants(TRUE, ret.location,
                                                            ret.cuisine, ret.priceRange)]
    /\ UNCHANGED <<variant, useMock, limits, tools, sessions, heap, pushed, carts, orders, now,
                   req, turns, execs>>

SearchNext == CallSearchRestaurants \/ CallWiredSearch

SearchSpec == SearchInit /\ [][SearchNext]_vars

\* ------------------------------------------- the tool registry, called alone
\* the names registered by a caller: two that registerDefaultTools has
\* registered and two that it has not
RegistryNames == {"search_restaurants", "view_cart", "get_offers", "rate_order"}

\* the definitions a caller registers
CustomDefinitions ==
    [name : RegistryNames, description : {"first", "second"},
     inputSchema : {"custom"}, handler : {"h1", "h2"}]

\* the names a caller executes
ExecutedNames == {"search_restaurants", "get_offers", "no_such_tool"}

NoDefinition == [name |-> "", description |-> "", inputSchema |-> "", handler |-> ""]

NoRegistryReturn ==
    [op |-> "", definition |-> NoDefinition, name |-> "", threw |-> FALSE,
     error |-> "", handler |-> "", listing |-> <<>>]

\* const toolRegistry = new ToolRegistry()
RegistryInit ==
    /\ variant = "registry"
    /\ useMock = TRUE
    /\ limits = [slots |-> {}, execs |-> 0, time |-> 0, lines |-> 0]
    /\ sessions = EmptyMap
    /\ heap = <<>>
    /\ pushed = <<>>
    /\ carts = EmptyMap
    /\ orders = EmptyMap
    /\ now = 0
    /\ req = [r \in Requests |-> IdleReq]
    /\ turns = 0
    /\ execs = 0
    /\ tools = DefaultRegistry
    /\ ret = NoRegistryReturn

\* toolRegistry.registerTool(definition): the method has no throw statement
CallRegisterTool(definition) ==
    /\ variant = "registry"
    /\ tools' = RegisterTool(tools, definition)
    /\ ret' = [NoRegistryReturn EXCEPT !.op = "registerTool",
                                       !.definition = definition,
                                       !.name = definition.name]
    /\ UNCHANGED <<variant, useMock, limits, sessions, heap, pushed, carts, orders, now,
                   req, turns, execs>>

\* toolRegistry.getGeminiTools()
CallGetGeminiTools ==
    /\ variant = "registry"
    /\ ret' = [NoRegistryReturn EXCEPT !.op = "getGeminiTools",
                                       !.listing = GetGeminiTools(tools)]
    /\ UNCHANGED <<variant, useMock, limits, tools, sessions, heap, pushed, carts, orders, now,
                   req, turns, execs>>

\* GET /tools
GetTools ==
    /\ variant = "registry"
    /\ ret' = [NoRegistryReturn EXCEPT !.op = "GET /tools",
                                       !.listing = ToolsEndpoint(tools)]
    /\ UNCHANGED <<variant, useMock, limits, tools, sessions, heap, pushed, carts, orders, now,
                   req, turns, execs>>

\* toolRegistry.executeTool(name, args, context), up to the call of the handler
CallExecuteTool(name) ==
    /\ variant = "registry"
    /\ LET x == ExecuteTool(tools, name)
       IN  ret' = [NoRegistryReturn EXCEPT !.op = "executeTool", !.name = name,
                                           !.threw = x.threw, !.error = x.error,
                                           !.handler = x.handler]
    /\ UNCHANGED <<variant, useMock, limits, tools, sessions, heap, pushed, carts, orders, now,
                   req, turns, execs>>

RegistryNext ==
    \/ \E definition \in CustomDefinitions : CallRegisterTool(definition)
    \/ CallGetGeminiTools
    \/ GetTools
    \/ \E name \in ExecutedNames : CallExecuteTool(name)

RegistrySpec == RegistryInit /\ [][RegistryNext]_vars

\* ================================================================ claims
InFlight(q) == q.pc \in {"send1", "tool", "send2"}

Fallbacks == {"fallback_processed", "fallback_help"}

\* the messages of turn r are in sequence h
HasTurn(h, r) == \E i \in 1..Len(h) : h[i].turn = r

\* C1: whatever the model answers, a turn executes at most maxCalls (10)
\* tools.
C1_ToolExecsWithinCap == \A r \in Requests : req[r].toolExecs <= maxCalls

\* a turn that executed 10 tools and whose model still asked for another
C1_Witness ==
    \E r \in Requests :
        req[r].pc = "done" /\ req[r].toolExecs = maxCalls /\ req[r].capped

\* C2: every /chat request gets exactly one response (200, 400 or 500), given
\* that every awaited model invocation and tool execution returns or throws;
\* also the turn whose model asks for a tool in every response.
C2_EveryRequestAnswered ==
    /\ [](\A r \in Requests :
            /\ req[r].responses <= 1
            /\ (req[r].pc = "done" <=> req[r].responses = 1)
            /\ (req[r].pc = "done" => req[r].status \in {200, 400, 500}))
    /\ \A r \in Requests : (InFlight(req[r]) ~> req[r].pc = "done")

\* a turn answered 200 after the model asked for a tool in all 11 responses
C2_Witness ==
    \E r \in Requests :
        /\ req[r].pc = "done" /\ req[r].responses = 1 /\ req[r].status = 200
        /\ req[r].capped /\ req[r].modelCalls = maxCalls + 1

\* C3 (as claimed): a turn stopped by the cap while the model still asks for a
\* tool answers 200 with a synthesized, non-empty fallback text.
C3_CapYieldsFallback ==
    \A r \in Requests :
        (req[r].pc = "done" /\ req[r].capped)
            => (req[r].status = 200 /\ req[r].finalText \in Fallbacks)

\* C4 (as claimed): a terminal response without text, or with empty text,
\* does not fail the turn; the final text is a non-empty fallback.
C4_NoTextYieldsFallback ==
    \A r \in Requests :
        req[r].pc = "done"
            => /\ req[r].cause # "text"
               /\ (req[r].status = 200 => req[r].finalText # "empty")

\* a history of (user, model) pairs, each pair of one turn
WellPaired(h) ==
    /\ Len(h) % 2 = 0
    /\ \A i \in 1..Len(h) :
          IF i % 2 = 1
          THEN h[i].role = "user" /\ h[i + 1].turn = h[i].turn
          ELSE h[i].role = "model"

\* request r completes its turn with a 200 in this step
Completes(r) ==
    req[r].pc # "done" /\ req'[r].pc = "done" /\ req'[r].status = 200

\* the pair request r has appended, read from its response
PairOf(q) ==
    <<[role |-> "user", turn |-> q.turn, text |-> q.msg],
      [role |-> "model", turn |-> q.turn, text |-> q.finalText]>>

\* the pair of request q stands in sequence h
HasPair(h, q) ==
    \E i \in 1..(Len(h) - 1) : h[i] = PairOf(q)[1] /\ h[i + 1] = PairOf(q)[2]

C5_Step ==
    /\ \A o \in 1..Len(heap) :
          heap'[o] # heap[o]
              => \E r \in Requests :
                    /\ Completes(r) /\ req[r].obj = o
                    /\ heap'[o] = SliceLast(heap[o] \o PairOf(req'[r]), HistoryCap)
    /\ \A r \in Requests :
          Completes(r) => pushed'[req[r].obj] = pushed[req[r].obj] \o PairOf(req'[r])

\* C5: every history has even length and is made of (user, model) pairs; a
\* history changes only by a completed turn appending its one pair.
C5_HistoryIsPairs ==
    /\ [](\A o \in 1..Len(heap) : WellPaired(heap[o]))
    /\ [][C5_Step]_vars

\* two turns completed on one session
C5_Witness ==
    \E o \in 1..Len(heap) :
        /\ Len(heap[o]) = 4
        /\ \A r \in Requests : req[r].pc = "done" /\ req[r].status = 200 /\ req[r].obj = o

C6_Step ==
    \A r \in Requests :
        Completes(r)
            => LET h == heap'[req[r].obj]
               IN  Len(h) >= 2 /\ SubSeq(h, Len(h) - 1, Len(h)) = PairOf(req'[r])

C7_ModelFailureLeavesHistory ==
    \A r \in Requests :
        (req[r].pc = "done" /\ req[r].cause = "model")
            => /\ req[r].status = 500
               /\ \A o \in 1..Len(pushed) : ~HasTurn(pushed[o], r) /\ ~HasTurn(heap[o], r)

\* the model failed after a tool had run, on a session that has a history
C7_Witness ==
    \E r \in Requests :
        /\ req[r].pc = "done" /\ req[r].cause = "model" /\ req[r].toolExecs > 0
        /\ Len(heap[req[r].obj]) = 2

\* the failures the mock service reports in its result
DomainErrors == {"Restaurant not found", "Item not found", "Cart is empty", "Order not found"}

\* C8: a domain failure of the backend is returned to the model, not thrown: a
\* turn that met one fails only because a model invocation or another tool
\* execution threw, and otherwise answers 200 with its pair in the history.
C8_DomainFailureIsFedBack ==
    \A r \in Requests :
        /\ (req[r].pc = "done" /\ req[r].cause = "tool") => req[r].error \notin DomainErrors
        /\ (req[r].pc = "send2" /\ ~req[r].payload.success /\ ~req[r].payload.caught)
              => (req[r].payload.error \in DomainErrors /\ req[r].sawFailure)
        /\ (req[r].pc = "done" /\ req[r].sawFailure /\ req[r].cause \notin {"model", "tool"})
              => (req[r].status = 200 /\ HasPair(pushed[req[r].obj], req[r]))

\* a turn that met a domain failure and answered 200
C8_Witness ==
    \E r \in Requests :
        /\ req[r].pc = "done" /\ req[r].sawFailure /\ req[r].status = 200
        /\ HasPair(heap[req[r].obj], req[r])

\* C9 (as claimed): an error raised by a tool execution never aborts the
\* turn; it is handed to the model as the function result.
C9_ToolErrorIsFedBack ==
    \A r \in Requests : req[r].pc = "done" => req[r].cause # "tool"

\* C10: order creation and cart removal are one step of the mock service. A
\* step that takes a session's cart out of the cart store is a successful
\* placeOrder of that session and puts, in the same step, an order holding that
\* cart's items and total into the order store; a step that puts an order into
\* the order store (or replaces one's items or total) takes the ordering
\* session's cart out of the cart store. So no state has the new order together
\* with its cart, or neither of them, whatever calls are interleaved.
OrderContents(o) == [k \in DOMAIN o |-> [items |-> o[k].items, total |-> o[k].total]]

CartRemoved(s) == s \in DOMAIN carts /\ s \notin DOMAIN carts'

C10_Step ==
    /\ \A s \in MockSessions :
          CartRemoved(s) =>
             /\ ret'.op = "placeOrder" /\ ret'.success /\ ret'.sessionId = s
             /\ ret'.orderId \in DOMAIN orders'
             /\ orders'[ret'.orderId].items = carts[s].items
             /\ orders'[ret'.orderId].total = carts[s].total
             /\ \A s2 \in MockSessions \ {s} : ~CartRemoved(s2)
    /\ OrderContents(orders') # OrderContents(orders) =>
          /\ ret'.op = "placeOrder" /\ ret'.success
          /\ CartRemoved(ret'.sessionId)
    /\ (ret'.op = "placeOrder" /\ ret'.success /\ ret' # ret) =>
          CartRemoved(ret'.sessionId)

C10_PlaceOrderIsAtomic == [][C10_Step]_vars

\* a placeOrder has just succeeded for one session while the other session's
\* cart, filled in between, is still in the store
C10_Witness ==
    /\ ret.op = "placeOrder" /\ ret.success
    /\ ret.sessionId \notin DOMAIN carts
    /\ ret.orderId \in DOMAIN orders
    /\ \E s \in MockSessions \ {ret.sessionId} :
          s \in DOMAIN carts /\ Len(carts[s].items) > 0

\* C11 (as claimed): a successful placeOrder takes an order id that no order in
\* the store has, so every order already in the store is still there, with its
\* items and total, after the step.
PlacedNow == ret'.op = "placeOrder" /\ ret'.success /\ CartRemoved(ret'.sessionId)

C11_Step ==
    PlacedNow =>
        /\ ret'.orderId \notin DOMAIN orders
        /\ \A k \in DOMAIN orders :
              k \in DOMAIN orders' /\ OrderContents(orders')[k] = OrderContents(orders)[k]

C11_OrderIdsAreFresh == [][C11_Step]_vars

\* C12: in the standalone mock a successful trackOrder moves the order exactly
\* one status on along confirmed, preparing, out_for_delivery, delivered, and
\* leaves a delivered order delivered; it returns the status it stored and
\* touches no other order. A placed order starts confirmed, so delivered is
\* returned by the third trackOrder and by none before it: no run reports
\* delivered within fewer than five calls (addToCart, placeOrder, three
\* trackOrder).
TrackedNow(k) ==
    /\ execs' = execs + 1
    /\ ret'.op = "trackOrder" /\ ret'.success /\ ret'.orderId = k

StepOn(status) ==
    IF status = "delivered" THEN "delivered" ELSE Statuses[StatusIndex(status) + 1]

C12_Step ==
    /\ \A k \in DOMAIN orders :
          TrackedNow(k) =>
             /\ orders' = [orders EXCEPT ![k].status = StepOn(orders[k].status)]
             /\ ret'.status = orders'[k].status
             /\ StatusIndex(orders'[k].status) >= StatusIndex(orders[k].status)
             /\ StatusIndex(orders'[k].status) <= StatusIndex(orders[k].status) + 1
    /\ PlacedNow => orders'[ret'.orderId].status = "confirmed"
    /\ (ret.op = "trackOrder" /\ ret.status = "delivered") => execs >= 5

C12_TrackOrderStepsOnce == [][C12_Step]_vars

\* the third trackOrder after placeOrder has just returned delivered
C12_Witness ==
    /\ ret.op = "trackOrder" /\ ret.success /\ ret.status = "delivered"
    /\ execs = 5
    /\ orders[ret.orderId].status = "delivered"

\* C13 (as claimed): in mock mode a track_order tool call that the registry
\* executes for a stored order not yet delivered leaves that order one step
\* further along the progression.
C13_WiredTrackAdvances ==
    \A r \in Requests, k \in DOMAIN orders :
        (variant = "gemini" /\ useMock /\ req[r].pc = "tool"
            /\ orders[k].status # "delivered")
        => LET res == WiredExecute([Call("track_order") EXCEPT !.orderId = k],
                                   req[r].sid, carts, orders, now)
           IN  /\ res.success
               /\ res.orders[k].status = StepOn(orders[k].status)

\* C14: in every reachable state every stored cart's total is the sum, over its
\* lines, of price times quantity; and a step changes a stored cart's total only
\* by appending one line to that cart (the lines before it stay as they were).
RECURSIVE LineSum(_)
LineSum(items) ==
    IF items = <<>> THEN 0
    ELSE Head(items).price * Head(items).quantity + LineSum(Tail(items))

TotalsAreLineSums == \A s \in DOMAIN carts : carts[s].total = LineSum(carts[s].items)

AppendedTo(s) ==
    /\ Len(carts'[s].items) = Len(carts[s].items) + 1
    /\ SubSeq(carts'[s].items, 1, Len(carts[s].items)) = carts[s].items

C14_Step ==
    \A s \in DOMAIN carts \cap DOMAIN carts' :
        carts'[s].total # carts[s].total => AppendedTo(s)

C14_TotalIsSumOfLines == []TotalsAreLineSums /\ [][C14_Step]_vars

\* a cart of two lines with different prices
C14_Witness ==
    \E s \in DOMAIN carts :
        /\ Len(carts[s].items) = 2
        /\ carts[s].items[1].price # carts[s].items[2].price
        /\ carts[s].total = LineSum(carts[s].items)

\* C15: a successful addToCart puts exactly one new line at the end of the
\* session's cart, leaves the lines before it and every other cart as they
\* were, and raises the total by the new line's subtotal; so a cart made of two
\* identical lines of item_001 (price 80) with quantity 2 has total 320.
AddedNow(s) ==
    /\ execs' = execs + 1
    /\ ret'.op = "addToCart" /\ ret'.success /\ ret'.sessionId = s

LinesBefore(s) == IF s \in DOMAIN carts THEN carts[s].items ELSE <<>>

TotalBefore(s) == IF s \in DOMAIN carts THEN carts[s].total ELSE 0

C15_Step ==
    \A s \in MockSessions :
        AddedNow(s) =>
            /\ s \in DOMAIN carts'
            /\ Len(carts'[s].items) = Len(LinesBefore(s)) + 1
            /\ SubSeq(carts'[s].items, 1, Len(LinesBefore(s))) = LinesBefore(s)
            /\ LET line == carts'[s].items[Len(carts'[s].items)]
               IN  /\ line.subtotal = line.price * line.quantity
                   /\ carts'[s].total = TotalBefore(s) + line.subtotal
            /\ \A s2 \in DOMAIN carts \ {s} : s2 \in DOMAIN carts' /\ carts'[s2] = carts[s2]

TwiceItem001(s) ==
    /\ s \in DOMAIN carts
    /\ Len(carts[s].items) = 2
    /\ carts[s].items[1] = carts[s].items[2]
    /\ carts[s].items[1].itemId = "item_001"
    /\ carts[s].items[1].quantity = 2

C15_AddToCartAppends ==
    /\ [][C15_Step]_vars
    /\ [](\A s \in MockSessions : TwiceItem001(s) => carts[s].total = 320)

\* addToCart(s, 'rest_001', 'item_001', 2) has just returned for the second time
C15_Witness ==
    \E s \in MockSessions :
        /\ TwiceItem001(s)
        /\ ret.op = "addToCart" /\ ret.success /\ ret.sessionId = s
        /\ ret.cart.total = 320

\* C16 (as claimed): addToCart with a quantity below 1 is rejected and adds no
\* line, so no stored cart ever holds a line whose quantity is below 1.
C16_QuantityIsValidated ==
    \A s \in DOMAIN carts :
        \A i \in 1..Len(carts[s].items) : carts[s].items[i].quantity >= 1

\* C17 (as claimed), for the mock service behind the tool registry: an
\* add_to_cart for a restaurant without a menu, or for an item that is not on
\* the restaurant's menu, fails with the matching error and adds no line.
MissingLookups ==
    {[Call("add_to_cart") EXCEPT !.restaurantId = "rest_999"],
     [Call("add_to_cart") EXCEPT !.itemId = "item_999"]}

C17_LookupMissFails ==
    \A r \in Requests, call \in MissingLookups :
        (variant = "gemini" /\ useMock /\ req[r].pc = "tool")
        => LET res == WiredExecute(call, req[r].sid, carts, orders, now)
           IN  /\ ~res.success
               /\ res.error \in {"Restaurant not found", "Item not found"}
               /\ \A s \in DOMAIN res.carts :
                     Len(res.carts[s].items) =
                        (IF s \in DOMAIN carts THEN Len(carts[s].items) ELSE 0)

\* the same for the standalone mock service, where it holds: a failed addToCart
\* reports the lookup that missed and no cart has gained a line
C17_StandaloneStep ==
    (execs' = execs + 1 /\ ret'.op = "addToCart" /\ ~ret'.success) =>
        /\ ret'.error \in {"Restaurant not found", "Item not found"}
        /\ \A s \in DOMAIN carts' : Len(carts'[s].items) = Len(LinesBefore(s))

C17_StandaloneLookupMissFails == [][C17_StandaloneStep]_vars

\* C18: a placeOrder for a session without a cart, or with a cart of zero
\* lines, fails with 'Cart is empty' and leaves the cart store and the order
\* store exactly as they were; and placeOrder fails in no other case.
PlaceOrderReturned ==
    execs' = execs + 1 /\ ret'.op = "placeOrder"

NothingToOrder(s) == s \notin DOMAIN carts \/ Len(carts[s].items) = 0

C18_Step ==
    PlaceOrderReturned =>
        /\ NothingToOrder(ret'.sessionId) <=> ~ret'.success
        /\ ~ret'.success =>
              /\ ret'.error = "Cart is empty"
              /\ ret'.orderId = ""
              /\ carts' = carts
              /\ orders' = orders

C18_EmptyCartIsRefused == [][C18_Step]_vars

\* placeOrder has just failed for a session whose (empty) cart is in the store,
\* while the other session has lines to order and an order is on record
C18_Witness ==
    /\ ret.op = "placeOrder" /\ ~ret.success /\ ret.error = "Cart is empty"
    /\ ret.sessionId \in DOMAIN carts
    /\ Len(carts[ret.sessionId].items) = 0
    /\ orders # EmptyMap

\* C19: a successful placeOrder returns an order holding exactly the lines and
\* the total its session's cart had, and leaves the session without lines; a
\* session without lines gets lines only by a successful addToCart of its own;
\* and viewCart returns the empty cart (no items, total 0) for a session without
\* lines, the stored lines and total otherwise. So from a successful placeOrder
\* to the session's next successful addToCart every viewCart is empty.
ViewedNow(s) ==
    /\ execs' = execs + 1
    /\ ret'.op = "viewCart" /\ ret'.sessionId = s

NoLinesAfter(s) == s \notin DOMAIN carts' \/ Len(carts'[s].items) = 0

C19_Step ==
    /\ PlacedNow =>
          /\ orders'[ret'.orderId].items = carts[ret'.sessionId].items
          /\ orders'[ret'.orderId].total = carts[ret'.sessionId].total
          /\ Len(orders'[ret'.orderId].items) > 0
          /\ NoLinesAfter(ret'.sessionId)
    /\ \A s \in MockSessions :
          /\ (NothingToOrder(s) /\ ~NoLinesAfter(s)) => AddedNow(s)
          /\ ViewedNow(s) =>
                /\ ret'.success
                /\ carts' = carts
                /\ ret'.cart = IF NothingToOrder(s) THEN EmptyCartShape
                               ELSE [items |-> carts[s].items, total |-> carts[s].total]

C19_CartIsEmptyAfterOrder == [][C19_Step]_vars

\* the third call of a run, a viewCart, has just returned the empty cart; the
\* two calls before it filled a cart and placed the order that is on record
C19_Witness ==
    /\ execs = 3
    /\ ret.op = "viewCart" /\ ret.success /\ ret.cart = EmptyCartShape
    /\ carts = EmptyMap
    /\ \E k \in DOMAIN orders : Len(orders[k].items) = 1

\* C20 (as claimed): an order in the store keeps its items and its total through
\* every later step, whichever call of whichever session the step is.
C20_Step ==
    \A k \in DOMAIN orders :
        /\ k \in DOMAIN orders'
        /\ orders'[k].items = orders[k].items
        /\ orders'[k].total = orders[k].total

C20_OrderSnapshotIsFixed == [][C20_Step]_vars

\* what does hold: the one step that changes a stored order's items or total is
\* a successful placeOrder that generated that order's id again
C20_OnlyReplacementStep ==
    \A k \in DOMAIN orders :
        /\ k \in DOMAIN orders'
        /\ (orders'[k].items # orders[k].items \/ orders'[k].total # orders[k].total)
              => (PlacedNow /\ ret'.orderId = k)

C20_OnlyReplacementAlters == [][C20_OnlyReplacementStep]_vars

\* C21: viewCart for a session that has no cart, or has the empty cart a failed
\* addToCart left behind (the two states of a session that never had a
\* successful addToCart), returns success with items = [] and total = 0, and the
\* call creates no cart: the cart store is the same after it.
C21_Step ==
    \A s \in MockSessions :
        (ViewedNow(s) /\ NothingToOrder(s)) =>
            /\ ret'.success /\ ret'.error = ""
            /\ ret'.cart.items = <<>> /\ ret'.cart.total = 0
            /\ DOMAIN carts' = DOMAIN carts
            /\ carts' = carts

\* no session has lines before one addToCart has succeeded: while the run has
\* seen no line yet, every viewCart answer is the empty cart
NoLineYet == orders = EmptyMap /\ \A s \in DOMAIN carts : carts[s].items = <<>>

C21_ViewOfFreshSession ==
    /\ [][C21_Step]_vars
    /\ []((NoLineYet /\ ret.op = "viewCart") => (ret.success /\ ret.cart = EmptyCartShape))

\* the first call of a run is a viewCart: it returned the empty cart and the
\* cart store is still empty
C21_Witness ==
    /\ execs = 1
    /\ ret.op = "viewCart" /\ ret.success /\ ret.cart = EmptyCartShape
    /\ carts = EmptyMap

\* C22: a trackOrder whose order id is not in the order store fails with
\* 'Order not found' and leaves the order store, every status in it included,
\* as it was; a trackOrder of a stored id never fails.
TrackReturned == execs' = execs + 1 /\ ret'.op = "trackOrder"

C22_Step ==
    TrackReturned =>
        /\ ret'.orderId \notin DOMAIN orders <=> ~ret'.success
        /\ ~ret'.success =>
              /\ ret'.error = "Order not found"
              /\ orders' = orders
              /\ carts' = carts

C22_UnknownOrderIsRefused == [][C22_Step]_vars

\* trackOrder has just failed for an unknown id while an order that could still
\* move on is in the store
C22_Witness ==
    /\ ret.op = "trackOrder" /\ ~ret.success /\ ret.error = "Order not found"
    /\ ret.orderId \notin DOMAIN orders
    /\ \E k \in DOMAIN orders : orders[k].status = "confirmed"

\* C23 (as claimed): whatever the location, the cuisine and the price range, a
\* search returns a list of restaurants of the region stored under the
\* lower-cased, whitespace-stripped location, or of vadodara when no region is
\* stored under it; the list is a subsequence of that region in source order,
\* and holds exactly the restaurants of it that pass every filter given.
RECURSIVE IsSubSeq(_, _)
IsSubSeq(a, b) ==
    IF a = <<>> THEN TRUE
    ELSE IF b = <<>> THEN FALSE
    ELSE IF Head(a) = Head(b) THEN IsSubSeq(Tail(a), Tail(b))
    ELSE IsSubSeq(a, Tail(b))

Searched == ret.op \in {"searchRestaurants", "wiredSearch"}

\* the regions of the service that answered
RegionsSearched ==
    IF ret.op = "wiredSearch" THEN KeyVadodara :> WiredRestaurants ELSE MockRestaurants

\* the region the claim names for the location searched
RegionClaimed ==
    LET key == StripSpaces(ToLowerCase(ret.location))
    IN  IF key \in DOMAIN RegionsSearched THEN RegionsSearched[key]
        ELSE RegionsSearched[KeyVadodara]

PassesFilters(r) ==
    /\ ret.cuisine # <<>> => Includes(ToLowerCase(r.cuisine), ToLowerCase(ret.cuisine))
    /\ ret.priceRange # "" => r.priceRange = ret.priceRange

SearchIsAsClaimed ==
    /\ ~ret.result.threw /\ ret.result.success /\ ret.result.isList
    /\ IsSubSeq(ret.result.restaurants, RegionClaimed)
    /\ \A i \in 1..Len(RegionClaimed) :
          PassesFilters(RegionClaimed[i])
             <=> \E j \in 1..Len(ret.result.restaurants) :
                    ret.result.restaurants[j] = RegionClaimed[i]

C23_SearchStaysInRegion == Searched => SearchIsAsClaimed

\* what does hold: the same, for every location whose key is not the name of a
\* property that the regions object inherits
C23_SearchOfOrdinaryKeys ==
    (Searched /\ StripSpaces(ToLowerCase(ret.location)) \notin InheritedKeys)
        => SearchIsAsClaimed

\* ---------------------------------------------------------------- C24
\* a call of registerTool that did something
RegisteredNow ==
    /\ variant = "registry"
    /\ ret'.op = "registerTool"
    /\ <<ret, tools>>' # <<ret, tools>>

C24_Step ==
    (RegisteredNow /\ HasTool(tools, ret'.name))
        => (ret'.threw /\ ret'.error = "DuplicateToolError" /\ tools' = tools)

\* C24 (as claimed): registering a definition whose name is already registered
\* fails with a duplicate-tool error and leaves the registry as it was, the
\* earlier definition and handler staying bound to the name.
C24_DuplicateIsRefused == [][C24_Step]_vars

C24_ReplaceStep ==
    (RegisteredNow /\ HasTool(tools, ret'.name))
        => /\ ~ret'.threw
           /\ Len(tools') = Len(tools)
           /\ \A i \in 1..Len(tools) :
                 tools'[i] = IF tools[i].name = ret'.name THEN ret'.definition
                             ELSE tools[i]

\* C24 (what registerTool does): registering a name again never fails; the new
\* definition takes the place of the old one and the other tools stay as they
\* were.
C24_DuplicateReplaces == [][C24_ReplaceStep]_vars

\* ---------------------------------------------------------------- C25
\* the messages of the two unknown-tool errors: executeTool's 'Tool not found'
\* and handleFunctionCall's 'Unknown function'
UnknownToolErrors == {"Tool not found", "Unknown function"}

\* the unknown-tool error is the function response sent to the model
FedBackUnknown(q) ==
    q.pc = "send2" /\ q.payload.kind = "result" /\ q.payload.error \in UnknownToolErrors

\* the unknown-tool error ended the turn
AbortedOnUnknown(q) ==
    q.pc = "done" /\ q.cause = "tool" /\ q.error \in UnknownToolErrors

UnknownToolIsFatal(r) ==
    /\ ~FedBackUnknown(req[r])
    /\ AbortedOnUnknown(req[r])
          => /\ req[r].status = 500
             /\ \A o \in 1..Len(pushed) : ~HasTurn(pushed[o], r) /\ ~HasTurn(heap[o], r)

UnknownToolTouchesNothing(r) ==
    (req[r].pc = "tool" /\ (FedBackUnknown(req'[r]) \/ AbortedOnUnknown(req'[r])))
        => (carts' = carts /\ orders' = orders)

\* C25 (as claimed): executing a name that is not registered fails with the
\* unknown-tool error and changes no cart and no order; the error ends the
\* turn with an error response and nothing of the turn in a history, and is
\* never the function response sent to the model.
C25_UnknownToolIsFatal ==
    /\ [](\A r \in Requests : UnknownToolIsFatal(r))
    /\ [][\A r \in Requests : UnknownToolTouchesNothing(r)]_vars

\* C25 (gemini-food-ordering.js alone): there the claim holds, executeTool's
\* throw reaching the route's catch block.
C25_UnknownToolIsFatalInRegistry ==
    /\ [](variant = "gemini" => \A r \in Requests : UnknownToolIsFatal(r))
    /\ [][\A r \in Requests : UnknownToolTouchesNothing(r)]_vars

\* ---------------------------------------------------------------- C26
\* a listing was asked for: by the chat route for the model, or by GET /tools
ListedNow ==
    /\ variant = "registry"
    /\ ret'.op \in {"getGeminiTools", "GET /tools"}
    /\ ret' # ret

ToolNames(t) == [i \in 1..Len(t) |-> t[i].name]

\* one tool per name, the default tools first and in the order of
\* registerDefaultTools
OneToolPerName ==
    /\ \A i, j \in 1..Len(tools) : tools[i].name = tools[j].name => i = j
    /\ SubSeq(ToolNames(tools), 1, Len(RegisteredTools)) = RegisteredTools

\* a listing has one entry per tool, in the registry's order, and an entry has
\* the tool's name, description and schema and no other field
ListingShowsRegistry ==
    ListedNow
        => /\ Len(ret'.listing) = Len(tools)
           /\ \A i \in 1..Len(tools) :
                 /\ DOMAIN ret'.listing[i] = {"name", "description", "parameters"}
                 /\ ret'.listing[i].name = tools[i].name
                 /\ ret'.listing[i].description = tools[i].description
                 /\ ret'.listing[i].parameters = tools[i].inputSchema

\* the registry's order is the order of registration: a new name goes to the
\* end, a name registered before keeps its place
OrderIsRegistrationOrder ==
    RegisteredNow
        => ToolNames(tools') = IF HasTool(tools, ret'.name) THEN ToolNames(tools)
                               ELSE Append(ToolNames(tools), ret'.name)

\* C26: the listing given to the model and the one GET /tools returns have one
\* entry per registered tool, in registration order, each made of name,
\* description and parameter schema only; no entry carries the handler.
C26_ListingIsNamesInOrder ==
    /\ []OneToolPerName
    /\ [][ListingShowsRegistry /\ OrderIsRegistrationOrder]_vars

\* GET /tools after rate_order and then get_offers were registered and
\* search_restaurants was registered again
C26_Witness ==
    /\ ret.op = "GET /tools"
    /\ Len(ret.listing) = 8
    /\ ret.listing[1].name = "search_restaurants" /\ ret.listing[1].description = "second"
    /\ ret.listing[7].name = "rate_order"
    /\ ret.listing[8].name = "get_offers"

\* ---------------------------------------------------------------- C27
\* the request of slot r came without a message or with ''
NoMessage(q) == q.msg \in {"missing", "empty"}

\* such a request is answered 400 and has called neither the model nor a tool
RejectedAtOnce(r) ==
    NoMessage(req[r])
        => /\ req[r].pc = "done"
           /\ req[r].status = 400 /\ req[r].cause = "validation"
           /\ req[r].responses = 1
           /\ req[r].modelCalls = 0 /\ req[r].toolExecs = 0
           /\ req[r].obj = 0

\* the step that takes such a request in leaves the stores as they were
RejectionTouchesNothing(r) ==
    (req[r].pc = "idle" /\ NoMessage(req'[r]))
        => /\ sessions' = sessions /\ heap' = heap /\ pushed' = pushed
           /\ carts' = carts /\ orders' = orders

\* C27: a /chat request without a message, or with the empty string, is
\* answered at once with the validation error; no model call is made for it,
\* no tool runs, and no session is created or changed.
C27_NoMessageIsRejected ==
    /\ [](\A r \in Requests : RejectedAtOnce(r))
    /\ [][\A r \in Requests : RejectionTouchesNothing(r)]_vars

\* the empty message was sent under the id of a session that has a history
C27_Witness ==
    \E r \in Requests :
        /\ req[r].msg = "empty" /\ req[r].pc = "done" /\ req[r].status = 400
        /\ req[r].sid \in DOMAIN sessions
        /\ Len(heap[sessions[req[r].sid]]) = 2

\* ---------------------------------------------------------------- C28
\* request r passes validation in this step and takes up session id sid
StartsOn(r, sid) == req[r].pc = "idle" /\ req'[r].pc = "send1" /\ req'[r].sid = sid

\* a turn that starts on an id with an entry takes that entry as it is: no
\* entry is made, no history is touched, and the history it starts from holds
\* the pair of every turn that completed on the entry
StartReusesEntry ==
    \A r \in Requests, sid \in DOMAIN sessions :
        StartsOn(r, sid)
            => /\ sessions' = sessions /\ heap' = heap /\ pushed' = pushed
               /\ req'[r].obj = sessions[sid]
               /\ \A r2 \in Requests :
                     (req[r2].pc = "done" /\ req[r2].status = 200
                         /\ req[r2].obj = sessions[sid])
                         => HasPair(heap'[req'[r].obj], req[r2])

\* the store changes only by a DELETE or by a turn that starts on an id without
\* an entry, which adds one entry with an empty history
StoreChangesByCreateOrDelete ==
    sessions' # sessions
        => \/ \E sid \in DOMAIN sessions : sessions' = MapDelete(sessions, sid)
           \/ \E r \in Requests :
                 /\ req[r].pc = "idle" /\ req'[r].pc = "send1"
                 /\ req'[r].sid \notin DOMAIN sessions
                 /\ sessions' = MapSet(sessions, req'[r].sid, Len(heap) + 1)
                 /\ heap' = Append(heap, <<>>)

\* no two ids share an entry, and where no DELETE route exists all turns of an
\* id are on one entry
OneEntryPerId ==
    /\ \A s1, s2 \in DOMAIN sessions : sessions[s1] = sessions[s2] => s1 = s2
    /\ variant = "gemini"
          => \A r1, r2 \in Requests :
                (req[r1].obj # 0 /\ req[r2].obj # 0 /\ req[r1].sid = req[r2].sid)
                    => req[r1].obj = req[r2].obj

\* C28: the session of an id is looked up, not made again: every turn with an
\* id that has an entry runs on that entry and starts from the history that the
\* completed turns on it appended; a turn never makes a second entry for the id
\* and never empties a history.
C28_SessionLookupIsIdempotent ==
    /\ []OneEntryPerId
    /\ [][StartReusesEntry /\ StoreChangesByCreateOrDelete]_vars

\* two turns with the id s1 completed, the second on the history of the first
C28_Witness ==
    /\ "s1" \in DOMAIN sessions
    /\ req[1].pc = "done" /\ req[1].status = 200 /\ req[1].sid = "s1"
    /\ req[2].pc = "done" /\ req[2].status = 200 /\ req[2].sid = "s1"
    /\ req[1].obj = sessions["s1"] /\ req[2].obj = sessions["s1"]
    /\ heap[sessions["s1"]] = PairOf(req[1]) \o PairOf(req[2])

\* ---------------------------------------------------------------- C29
\* DELETE /session/:sessionId was answered in this step
DeletedNow ==
    /\ ret'.op = "DELETE /session"
    /\ req' = req
    /\ <<ret, sessions>>' # <<ret, sessions>>

C29_DeleteStep ==
    DeletedNow
        => IF ret'.sessionId \in DOMAIN sessions
           THEN /\ ret'.success
                /\ ret'.sessionId \notin DOMAIN sessions'
                /\ sessions' = MapDelete(sessions, ret'.sessionId)
           ELSE /\ ~ret'.success /\ ret'.error = "Session not found"
                /\ sessions' = sessions /\ heap' = heap /\ pushed' = pushed

\* a turn that starts on an id without an entry starts from an empty history,
\* whatever was said under that id before
C29_FreshStep ==
    \A r \in Requests :
        (req[r].pc = "idle" /\ req'[r].pc = "send1" /\ req'[r].sid \notin DOMAIN sessions)
            => /\ req'[r].sid \in DOMAIN sessions'
               /\ sessions'[req'[r].sid] = req'[r].obj
               /\ req'[r].obj \notin {req[r2].obj : r2 \in Requests}
               /\ heap'[req'[r].obj] = <<>>

\* C29: DELETE /session/:sessionId takes the session out of the store, and the
\* next turn with that id starts from an empty history; for an id without a
\* session the route answers not-found and nothing changes.
C29_DeleteStartsAfresh == [][C29_DeleteStep /\ C29_FreshStep]_vars

\* a turn completed on s1, s1 was deleted, and the next turn on s1 is on an
\* entry of its own that has nothing of the first turn
C29_Witness ==
    /\ ret.op = "DELETE /session" /\ ret.success
    /\ req[1].pc = "done" /\ req[1].status = 200 /\ req[1].sid = "s1"
    /\ req[2].pc # "idle" /\ req[2].sid = "s1" /\ req[2].obj # 0
    /\ req[2].obj # req[1].obj
    /\ sessions["s1"] = req[2].obj
    /\ HasPair(heap[req[1].obj], req[1])
    /\ ~HasTurn(heap[req[2].obj], 1)

\* a DELETE of an id that has no session was answered
C29_NotFoundWitness ==
    /\ ret.op = "DELETE /session" /\ ~ret.success
    /\ \E r \in Requests : req[r].pc = "done" /\ req[r].status = 200

\* ---------------------------------------------------------------- C30
\* C30 (as claimed): the status of an order in the store changes only in a
\* trackOrder of that order; getMenu, addToCart, viewCart and placeOrder leave
\* the status of every stored order as it is, and an order new in the store has
\* the status confirmed.
C30_Step ==
    /\ \A k \in DOMAIN orders :
          /\ k \in DOMAIN orders'
          /\ orders'[k].status # orders[k].status => TrackedNow(k)
    /\ \A k \in DOMAIN orders' \ DOMAIN orders : orders'[k].status = "confirmed"

C30_StatusOnlyByTrackOrder == [][C30_Step]_vars

\* what does hold: besides trackOrder, the one step that changes a stored
\* order's status is a successful placeOrder that generated the order's id
\* again, which puts it back to confirmed
C30_TrackOrReplacementStep ==
    /\ \A k \in DOMAIN orders :
          /\ k \in DOMAIN orders'
          /\ orders'[k].status # orders[k].status
                => \/ TrackedNow(k)
                   \/ PlacedNow /\ ret'.orderId = k /\ orders'[k].status = "confirmed"
    /\ \A k \in DOMAIN orders' \ DOMAIN orders : orders'[k].status = "confirmed"

C30_OnlyTrackOrReplacementAlters == [][C30_TrackOrReplacementStep]_vars

\* ---------------------------------------------------------------- C31
\* the awaits of a turn follow one another: while the turn runs, every tool the
\* model asked for before the pending call has been executed, and a completed
\* turn reports as toolsUsed the number of tools it executed
CallsAlternate(r) ==
    /\ req[r].pc \in {"send1", "tool", "send2"}
          => req[r].modelCalls = req[r].toolExecs + 1
    /\ req[r].pc = "send1" => req[r].toolExecs = 0
    /\ (req[r].pc = "done" /\ req[r].status = 200)
          => /\ req[r].modelCalls = req[r].toolExecs + 1
             /\ req[r].callCount = req[r].toolExecs

\* a model invocation is issued only when the turn starts or in the step in
\* which the result of the pending tool execution arrives; a tool is executed
\* only while the model's request for it is pending, one per step
OneAwaitAtATime(r) ==
    /\ req'[r].modelCalls # req[r].modelCalls
          => \/ req[r].pc = "idle" /\ req'[r].pc = "send1" /\ req'[r].modelCalls = 1
             \/ /\ req[r].pc = "tool" /\ req'[r].pc = "send2"
                /\ req'[r].modelCalls = req[r].modelCalls + 1
                /\ req'[r].toolExecs = req[r].toolExecs + 1
                /\ req'[r].payload.kind = "result"
    /\ req'[r].toolExecs # req[r].toolExecs
          => /\ req[r].pc = "tool"
             /\ req'[r].toolExecs = req[r].toolExecs + 1
    /\ (req'[r].pc = "tool" /\ req[r].pc # "tool")
          => req[r].pc \in {"send1", "send2"}

\* C31: within a turn the tool-call loop is sequential. The model is invoked
\* again only with the result of the tool it last asked for, tool executions of
\* a turn never overlap, and a completed turn has made one model invocation
\* more than it executed tools, that number being its toolsUsed.
C31_LoopIsSequential ==
    /\ [](\A r \in Requests : CallsAlternate(r))
    /\ [][\A r \in Requests : OneAwaitAtATime(r)]_vars

\* a turn completed after two tool executions and three model invocations
C31_Witness ==
    \E r \in Requests :
        /\ req[r].pc = "done" /\ req[r].status = 200
        /\ req[r].toolExecs = 2 /\ req[r].modelCalls = 3 /\ req[r].callCount = 2

\* ---------------------------------------------------------------- C32
\* the response being worked on asked for several function calls
SeveralCalls(q) == q.calls > 1

\* of a response's function calls, the one taken up is the first
FirstIsPicked(r) ==
    req[r].pc = "tool" => (req[r].calls >= 1 /\ req[r].picked = 1)

\* the execution for a response with several calls: one tool runs, and the turn
\* then sends one function result to the model or ends; no second tool runs
\* for that response
OneExecutionPerResponse(r) ==
    (req[r].pc = "tool" /\ SeveralCalls(req[r]) /\ req'[r] # req[r])
        => /\ req'[r].toolExecs = req[r].toolExecs + 1
           /\ req'[r].pc \in {"send2", "done"}
           /\ req'[r].pc = "send2"
                 => /\ req'[r].modelCalls = req[r].modelCalls + 1
                    /\ req'[r].payload.kind = "result"
                    /\ req'[r].calls = req[r].calls

\* when the model has answered the function result, the counter is one higher
CounterGrowsByOne(r) ==
    /\ (req[r].pc = "send2" /\ req'[r].pc # "send2" /\ req'[r].cause # "model")
          => /\ req'[r].callCount = req[r].callCount + 1
             /\ req'[r].toolExecs = req[r].toolExecs
    /\ (req[r].pc = "tool" /\ req'[r].pc = "send2")
          => req'[r].callCount = req[r].callCount

\* C32: of several function calls in one model response the first, and only
\* the first, is executed: one tool execution, one function result sent to the
\* model, and the counter one higher when that iteration is over.
C32_OnlyFirstCallRuns ==
    /\ [](\A r \in Requests : FirstIsPicked(r))
    /\ [][\A r \in Requests : OneExecutionPerResponse(r) /\ CounterGrowsByOne(r)]_vars

\* a response asked for two calls, one tool has run and its result is with the
\* model
C32_Witness ==
    \E r \in Requests :
        /\ req[r].pc = "send2" /\ req[r].calls = 2 /\ req[r].picked = 1
        /\ req[r].toolExecs = 1 /\ req[r].modelCalls = 2

\* ---------------------------------------------------------------- C33
ReadOps == {"searchRestaurants", "getMenu", "viewCart"}

\* one of the three reads returned in this step
ReadNow == execs' = execs + 1 /\ ret'.op \in ReadOps

\* the call before this one was the same read with the same arguments
SameReadAgain == ReadNow /\ ret.op = ret'.op /\ ret.args = ret'.args

C33_Step ==
    /\ ReadNow => (carts' = carts /\ orders' = orders)
    /\ SameReadAgain => ret' = ret

\* C33: searchRestaurants, getMenu and viewCart only read: whatever the state
\* and the arguments, the cart store and the order store are the same after the
\* call, and the same call made again straight away returns what it returned
\* the first time.
C33_ReadsArePure == [][C33_Step]_vars

\* viewCart has returned a cart with a line while the order store holds an order
\* that is past confirmed
C33_Witness ==
    /\ ret.op = "viewCart" /\ Len(ret.cart.items) = 1
    /\ ret.sessionId \in DOMAIN carts /\ carts[ret.sessionId].items = ret.cart.items
    /\ \E k \in DOMAIN orders : orders[k].status = "preparing"

\* a search has returned a list while a cart with a line is in the store
C33_SearchWitness ==
    /\ ret.op = "searchRestaurants" /\ ret.result.success
    /\ Len(ret.result.restaurants) > 0
    /\ \E s \in DOMAIN carts : Len(carts[s].items) = 1

\* ---------------------------------------------------------------- C34
\* addToCart returned a failure in this step
AddFailedNow == execs' = execs + 1 /\ ret'.op = "addToCart" /\ ~ret'.success

\* C34 (as claimed): an addToCart that fails, for its restaurant or its item,
\* leaves the cart store as it was: no cart is made for a session that had none
\* and the session is not bound to the restaurant of the failed call.
C34_Step == AddFailedNow => carts' = carts

C34_FailedAddLeavesStore == [][C34_Step]_vars

\* what does hold: a failed addToCart changes no cart that was in the store; for
\* a session without a cart it puts an empty one there, bound to the restaurant
\* id it was called with
C34_EmptyCartStep ==
    AddFailedNow
        => /\ ret'.error \in {"Restaurant not found", "Item not found"}
           /\ \A s \in DOMAIN carts : s \in DOMAIN carts' /\ carts'[s] = carts[s]
           /\ ret'.sessionId \in DOMAIN carts'
           /\ ret'.sessionId \notin DOMAIN carts
                 => carts'[ret'.sessionId] =
                       [restaurantId |-> ret'.args[2], items |-> <<>>, total |-> 0]

C34_FailedAddMakesEmptyCart == [][C34_EmptyCartStep]_vars

\* ---------------------------------------------------------------- C35
\* item itemId is on the menu of restaurant restaurantId
OnMenu(restaurantId, itemId) ==
    /\ restaurantId \in DOMAIN MockMenus
    /\ FindInCategories(MockMenus[restaurantId], itemId) # <<>>

\* every line of every cart is an item of the restaurant the cart is bound to
LinesAreOfBoundRestaurant ==
    \A s \in DOMAIN carts :
        \A i \in 1..Len(carts[s].items) :
            OnMenu(carts[s].restaurantId, carts[s].items[i].itemId)

\* a cart keeps its restaurantId for as long as it is in the store
BindingIsFixed ==
    \A s \in DOMAIN carts :
        s \in DOMAIN carts' => carts'[s].restaurantId = carts[s].restaurantId

\* C35 (as claimed): in every reachable state each line of a cart is an item of
\* the menu of the restaurant the cart is bound to; the binding made by the
\* first addToCart stays while the cart exists, and an addToCart that names
\* another restaurant puts no item of that restaurant into the cart.
C35_CartHoldsOneRestaurant ==
    /\ []LinesAreOfBoundRestaurant
    /\ [][BindingIsFixed]_vars

\* what does hold: the binding never changes, and a line is an item of the
\* restaurant named in the addToCart that added it
C35_LineStep ==
    /\ BindingIsFixed
    /\ \A s \in MockSessions :
          AddedNow(s)
              => OnMenu(ret'.args[2], carts'[s].items[Len(carts'[s].items)].itemId)

C35_LinesAreOfCalledRestaurant == [][C35_LineStep]_vars

\* a cart bound to rest_001 that holds an item of rest_002
C35_MixedCart ==
    /\ "s1" \in DOMAIN carts
    /\ carts["s1"].restaurantId = "rest_001"
    /\ \E i \in 1..Len(carts["s1"].items) : carts["s1"].items[i].itemId = "item_101"

\* ---------------------------------------------------------------- C36
\* the cart stored under session id s, or no cart
CartOf(c, s) == IF s \in DOMAIN c THEN <<c[s]>> ELSE <<>>

CartKeys == DOMAIN carts \cup DOMAIN carts'

\* a tool execution of the turn in slot r ended in this step
ExecutedNow(r) == req[r].pc = "tool" /\ req'[r].toolExecs = req[r].toolExecs + 1

\* a tool executed in a turn leaves every cart but the one of the turn's
\* session as it was, and reports an empty cart only if that one is empty
TurnKeepsToItsCart(r) ==
    ExecutedNow(r)
        => /\ \A s \in CartKeys \ {req[r].sid} : CartOf(carts', s) = CartOf(carts, s)
           /\ (req'[r].pc = "send2" /\ req'[r].payload.error = "Cart is empty")
                 => (CartOf(carts, req[r].sid) = <<>>
                        \/ Len(carts[req[r].sid].items) = 0)

\* a cart changes only in a tool execution of a turn of its session
CartChangesInOwnTurn ==
    \A s \in CartKeys :
        CartOf(carts', s) # CartOf(carts, s)
            => \E r \in Requests : ExecutedNow(r) /\ req[r].sid = s

\* C36: carts are isolated by session. add_to_cart, view_cart and place_order
\* run in a turn of one session read and change the cart stored under that
\* session's id and no other, however the turns of different sessions
\* interleave.
C36_CartsAreIsolated ==
    [][CartChangesInOwnTurn /\ \A r \in Requests : TurnKeepsToItsCart(r)]_vars

\* two turns of different sessions have each put a line into their own cart
C36_Witness ==
    /\ req[1].sid # req[2].sid
    /\ req[1].sid \in DOMAIN carts /\ req[2].sid \in DOMAIN carts
    /\ Len(carts[req[1].sid].items) = 1 /\ Len(carts[req[2].sid].items) = 1
    /\ req[1].toolExecs = 1 /\ req[2].toolExecs = 1

\* ---------------------------------------------------------------- C37
\* h is a sequence of pairs: a user message at each odd place, followed by the
\* model reply of the same turn
PairsOfOneTurn(h) ==
    /\ Len(h) % 2 = 0
    /\ \A i \in 1..Len(h) :
          i % 2 = 1 => /\ h[i].role = "user" /\ h[i + 1].role = "model"
                       /\ h[i + 1].turn = h[i].turn

\* the pair of a completed turn is in the history of the session entry the turn
\* ran on, as long as that history has not been cut to the cap
PairIsKept(r) ==
    (req[r].pc = "done" /\ req[r].status = 200
        /\ Len(pushed[req[r].obj]) <= HistoryCap)
        => HasPair(heap[req[r].obj], req[r])

\* where no route deletes sessions, that entry is the one stored under the id
PairIsInStore(r) ==
    (variant = "gemini" /\ req[r].pc = "done" /\ req[r].status = 200)
        => /\ req[r].sid \in DOMAIN sessions
           /\ sessions[req[r].sid] = req[r].obj

\* C37: turns that overlap on one session id never split a pair. In every
\* history each user message is followed at once by the model reply of its own
\* turn, the length is even, and while the cap is not reached the pair of every
\* completed turn is there.
C37_OverlapKeepsPairs ==
    /\ \A o \in 1..Len(heap) : PairsOfOneTurn(heap[o])
    /\ \A r \in Requests : PairIsKept(r) /\ PairIsInStore(r)

\* two turns on s1 overlapped: the turn that started second completed first,
\* and both pairs are in the history, whole
C37_Witness ==
    /\ "s1" \in DOMAIN sessions
    /\ req[1].sid = "s1" /\ req[2].sid = "s1"
    /\ req[1].pc = "done" /\ req[1].status = 200
    /\ req[2].pc = "done" /\ req[2].status = 200
    /\ req[1].toolExecs = 1 /\ req[2].toolExecs = 1
    /\ heap[sessions["s1"]] = PairOf(req[2]) \o PairOf(req[1])

====
